---- MODULE Spec2Model ----
(***************************************************************************)
(* A model of the LLM gateway's request/response pipeline.                 *)
(*                                                                         *)
(* Part I   the OpenAI-SSE -> Anthropic-SSE streaming converter            *)
(*          (AnthropicTransformer._process_stream) and the non-streaming   *)
(*          JSON converter (_convert_openai_response_to_anthropic).        *)
(* Part II  the pipeline engine (process_transformer_request).             *)
(***************************************************************************)
EXTENDS Integers, Sequences, FiniteSets, TLC

(***************************************************************************)
(* Bounds of the model.                                                    *)
(***************************************************************************)
\* Number of reads of the upstream body (response.aiter_bytes()) explored.
MaxReads == 3

(***************************************************************************)
(* Part I.  Upstream text.                                                 *)
(*                                                                         *)
(* The upstream body is text.  It is modelled as a sequence of tokens: the *)
(* line prefix "data: ", the newline, the "[DONE]" marker and the JSON     *)
(* text of a chunk, which is either whole or cut in a left and a right     *)
(* part (a cut made by the boundary of two network reads).  A read is a    *)
(* sequence of tokens.  The JSON text of a chunk is named by the chunk's   *)
(* name in ChunkTable.                                                     *)
(***************************************************************************)
TokPfx == [t |-> "data: ", part |-> "", c |-> ""]
TokNL == [t |-> "nl", part |-> "", c |-> ""]
TokDone == [t |-> "[DONE]", part |-> "", c |-> ""]
TokJson(n) == [t |-> "json", part |-> "whole", c |-> n]
TokJsonL(n) == [t |-> "json", part |-> "left", c |-> n]
TokJsonR(n) == [t |-> "json", part |-> "right", c |-> n]

NoThinking == [present |-> FALSE, has_signature |-> FALSE, signature |-> "", content |-> ""]
NoUsage == [prompt_tokens |-> 0, completion_tokens |-> 0]

\* An OpenAI chat.completion.chunk object; "" stands for an absent or null
\* field, <<>> for an absent tool_calls list.
BaseChunk ==
  [error |-> "", model |-> "", has_choice |-> TRUE, thinking |-> NoThinking,
   content |-> "", tool_calls |-> <<>>, finish_reason |-> "", usage |-> NoUsage]

ToolDelta(i, id, name, args) == [index |-> i, id |-> id, name |-> name, arguments |-> args]

\* The chunks the upstream may send.
ChunkTable ==
  [ text      |-> [BaseChunk EXCEPT !.content = "Hi", !.model = "m"],
    think     |-> [BaseChunk EXCEPT !.thinking = [NoThinking EXCEPT !.present = TRUE, !.content = "hm"]],
    sig       |-> [BaseChunk EXCEPT !.thinking = [NoThinking EXCEPT !.present = TRUE, !.has_signature = TRUE, !.signature = "s1"]],
    tool0     |-> [BaseChunk EXCEPT !.tool_calls = <<ToolDelta(0, "c1", "f", "a")>>],
    tool0anon |-> [BaseChunk EXCEPT !.tool_calls = <<ToolDelta(0, "", "", "")>>],
    tool0up   |-> [BaseChunk EXCEPT !.tool_calls = <<ToolDelta(0, "call_abc", "f", "c")>>],
    args0     |-> [BaseChunk EXCEPT !.tool_calls = <<ToolDelta(0, "", "", "b")>>],
    tool1     |-> [BaseChunk EXCEPT !.tool_calls = <<ToolDelta(1, "c2", "g", "x"), ToolDelta(0, "", "", "y")>>],
    err       |-> [BaseChunk EXCEPT !.error = "overloaded", !.has_choice = FALSE],
    nochoice  |-> [BaseChunk EXCEPT !.has_choice = FALSE, !.model = "m2"],
    fin_stop  |-> [BaseChunk EXCEPT !.content = "!", !.finish_reason = "stop",
                                    !.usage = [prompt_tokens |-> 2, completion_tokens |-> 3]],
    fin_len   |-> [BaseChunk EXCEPT !.finish_reason = "length"],
    fin_tool  |-> [BaseChunk EXCEPT !.finish_reason = "tool_calls"],
    fin_filter |-> [BaseChunk EXCEPT !.finish_reason = "content_filter"],
    fin_other |-> [BaseChunk EXCEPT !.finish_reason = "function_call"] ]

ChunkNames == DOMAIN ChunkTable

\* Chunks whose data line the model also delivers cut over two reads.
SplitNames == {"text", "args0", "fin_stop"}

\* One complete SSE frame "data: {...}\n\n".
WholeRead(n) == <<TokPfx, TokJson(n), TokNL, TokNL>>
\* The same frame cut inside its JSON text: the first and the second read.
HeadRead(n) == <<TokPfx, TokJsonL(n)>>
TailRead(n) == <<TokJsonR(n), TokNL, TokNL>>
DoneRead == <<TokPfx, TokDone, TokNL, TokNL>>

\* Two frames delivered by one read.
TwoFrames == {<<"fin_stop", "text">>, <<"fin_len", "fin_tool">>, <<"tool0", "args0">>}

ReadSet ==
  {WholeRead(n) : n \in ChunkNames}
    \cup {HeadRead(n) : n \in SplitNames}
    \cup {TailRead(n) : n \in SplitNames}
    \cup {WholeRead(p[1]) \o WholeRead(p[2]) : p \in TwoFrames}
    \cup {DoneRead}

(***************************************************************************)
(* Text operations of the converter.                                       *)
(***************************************************************************)
\* chunk_str.split('\n'): the lines of a read, the newlines removed.
RECURSIVE SplitFrom(_, _, _)
SplitFrom(s, k, cur) ==
  IF k > Len(s) THEN <<cur>>
  ELSE IF s[k] = TokNL THEN <<cur>> \o SplitFrom(s, k + 1, <<>>)
  ELSE SplitFrom(s, k + 1, Append(cur, s[k]))

SplitLines(s) == SplitFrom(s, 1, <<>>)

\* line.startswith('data: ')
StartsWithData(line) == Len(line) >= 1 /\ line[1] = TokPfx

\* line[6:]
DataOf(line) == Tail(line)

\* json.loads(data) succeeds: the data is the whole JSON text of one chunk,
\* in one piece or as its left part followed by its right part.
JsonParses(data) ==
  \/ Len(data) = 1 /\ data[1].t = "json" /\ data[1].part = "whole"
  \/ /\ Len(data) = 2
     /\ data[1].t = "json" /\ data[1].part = "left"
     /\ data[2].t = "json" /\ data[2].part = "right"
     /\ data[1].c = data[2].c

JsonLoads(data) == ChunkTable[data[1].c]

(***************************************************************************)
(* Emitted Anthropic events.  Every event is a record of the same shape:   *)
(* type, index (-1 when the event has none), kind (block or delta type),   *)
(* and two payload fields a and b.                                         *)
(***************************************************************************)
MessageId == "msg_ts"

EvMessageStart(model) ==
  [type |-> "message_start", index |-> -1, kind |-> "", a |-> MessageId, b |-> model, u |-> [prompt_tokens |-> 1, completion_tokens |-> 1]]
EvError(msg) ==
  [type |-> "error", index |-> -1, kind |-> "api_error", a |-> msg, b |-> "", u |-> NoUsage]
EvBlockStart(i, kind, id, name) ==
  [type |-> "content_block_start", index |-> i, kind |-> kind, a |-> id, b |-> name, u |-> NoUsage]
EvBlockDelta(i, kind, payload) ==
  [type |-> "content_block_delta", index |-> i, kind |-> kind, a |-> payload, b |-> "", u |-> NoUsage]
EvBlockStop(i) ==
  [type |-> "content_block_stop", index |-> i, kind |-> "", a |-> "", b |-> "", u |-> NoUsage]
EvMessageDelta(stop_reason, usage) ==
  [type |-> "message_delta", index |-> -1, kind |-> "", a |-> stop_reason, b |-> "", u |-> usage]
EvMessageStop ==
  [type |-> "message_stop", index |-> -1, kind |-> "", a |-> "", b |-> "", u |-> NoUsage]

(***************************************************************************)
(* State of one run of _process_stream.                                    *)
(***************************************************************************)
VARIABLES
  model,                      \* model captured from the chunks
  has_started,                \* message_start was written
  has_text_content_started,   \* a text block was started
  has_finished,               \* a finish_reason was processed
  tool_calls,                 \* upstream tool index -> {id, name, arguments, content_block_index}
  tool_call_index_to_content_block_index,
  content_index,              \* index of the current content block
  out,                        \* the events written to the writer, in order
  fed,                        \* the reads delivered by response.aiter_bytes() so far
  handled,                    \* the chunks json.loads returned, in order
  discarded,                  \* reads fetched after the finish and dropped by the break
  pc                          \* "reading" | "closed" (writer closed)

streamVars ==
  <<model, has_started, has_text_content_started, has_finished, tool_calls,
    tool_call_index_to_content_block_index, content_index, out, fed, handled,
    discarded, pc>>

(***************************************************************************)
(* State of one run of process_transformer_request (Part II).              *)
(***************************************************************************)
VARIABLES
  provider_found,   \* provider_service.get_provider(provider_name) returned a provider
  use,              \* provider.transformer['use']
  model_use,        \* provider.transformer[model_name]['use'], <<>> when absent
  is_stream,        \* the request body has stream = true
  raising,          \* the call that raises in this run, "none" when none does
  pl_pc,            \* position of the handler
  chain_i,          \* position in the transformer list being walked
  calls,            \* the hooks invoked and the upstream calls made, in order
  response,         \* what send_unified_request returned
  reply             \* what the client receives

pipeVars ==
  <<provider_found, use, model_use, is_stream, raising, pl_pc, chain_i, calls,
    response, reply>>

(***************************************************************************)
(* The data of one request on its way to the provider: the request half of *)
(* process_transformer_request and send_unified_request (Part III).        *)
(***************************************************************************)
VARIABLES
  body,               \* the client's body, as parsed by request.json()
  api_key,            \* provider.api_key
  transformer_use,    \* transformer_dict['use']
  model_transformers, \* transformer_dict[model_name]['use'], <<>> when absent
  request_body,       \* the value handed from hook to hook
  config,             \* the per-request config collected from the hooks
  rq_pc,              \* position of the handler
  rq_i,               \* position in the transformer list being walked
  sent                \* the HTTP request posted to the provider, NotSent when none

requestVars ==
  <<body, api_key, transformer_use, model_transformers, request_body, config, rq_pc,
    rq_i, sent>>

(***************************************************************************)
(* State of one run of model_provider_middleware (Part IV).                *)
(***************************************************************************)
VARIABLES
  method,           \* request.method
  raw_body,         \* what json.loads(await request.body()) gives
  state_provider,   \* request.state.provider, NoProvider while unset
  fwd_model,        \* the model of the body the handler downstream receives
  mw_pc             \* "filter" | "call_next"

filterVars == <<method, raw_body, state_provider, fwd_model, mw_pc>>

(***************************************************************************)
(* State of the router middleware and its get_use_model (Part V).          *)
(***************************************************************************)
VARIABLES
  rt_request,       \* the request: its model and its thinking field
  token_count,      \* the token count the router computed
  router_config,    \* config: the Router section, or no Router section
  use_model,        \* what get_use_model returned, NoModel before the call
  rt_headers,       \* response.headers
  rt_calls,         \* the calls of get_use_model so far: arguments and result
  rt_pc             \* "call" | "returned" | "done"

routerVars ==
  <<rt_request, token_count, router_config, use_model, rt_headers, rt_calls, rt_pc>>

(***************************************************************************)
(* State of the provider registry and its admin endpoints (Part VI).       *)
(***************************************************************************)
VARIABLES
  providers,        \* ProviderService.providers: name -> LLMProvider
  model_routes,     \* ProviderService.model_routes: key -> ModelRoute
  pv_op,            \* the admin request handled last, "startup" before the first
  pv_reply          \* the reply to it: status and error code

registryVars == <<providers, model_routes, pv_op, pv_reply>>

(***************************************************************************)
(* State of the router process's start-up and of a request on its way      *)
(* through the pre-handler hooks (Part VII).                               *)
(***************************************************************************)
VARIABLES
  file_config,      \* the config file: HOST and APIKEY, None when absent
  environ,          \* os.environ: HOST, None when unset
  host,             \* the local host of run()
  service_config,   \* ConfigService.config: HOST
  bind_host,        \* the host uvicorn.run was given, None before
  hooks,            \* ServerAdapter.hooks: the pre_handler hooks installed
  au_request,       \* a request: its url and its two key headers
  au_reply,         \* what the request met: a 401 reply or the route handler
  st_pc

startVars ==
  <<file_config, environ, host, service_config, bind_host, hooks, au_request,
    au_reply, st_pc>>

(***************************************************************************)
(* State of the HTTP routes of register_api_routes (Part VIII).            *)
(***************************************************************************)
VARIABLES
  transformers,     \* TransformerService.transformers that have an end_point, in order
  app_routes,       \* app.routes, in the order they were added
  dp_request,       \* a request: method and path
  dp_reply,         \* the handler that answered it, and its error if any
  dp_pc

dispatchVars == <<transformers, app_routes, dp_request, dp_reply, dp_pc>>

(***************************************************************************)
(* State of one run of a stream rewriter: the generator that               *)
(* transform_response_out of deepseek, openrouter or tooluse returns       *)
(* (Part IX).                                                              *)
(***************************************************************************)
VARIABLES
  rw,               \* the locals of the generator and what it has yielded
  rw_fed,           \* the upstream lines delivered so far
  rw_pc             \* "streaming" | "closed"

rewriteVars == <<rw, rw_fed, rw_pc>>

(***************************************************************************)
(* State of one call of a hook on a whole request or response (Part X).    *)
(***************************************************************************)
VARIABLES
  hk_call,          \* which hook is called, and on what
  hk_result,        \* what it returned or raised, NoResult before the call
  hk_pc             \* "call" | "done"

hookVars == <<hk_call, hk_result, hk_pc>>

(***************************************************************************)
(* State of two streamed requests in flight at once (Part XI).             *)
(***************************************************************************)
VARIABLES
  cc_frames,        \* request -> the locals of its converter or rewriter
  cc_fed            \* request -> the upstream reads or lines it was given

concurrentVars == <<cc_frames, cc_fed>>

(***************************************************************************)
(* State of the `code` command sessions and the reference count file       *)
(* (Part XII).                                                             *)
(***************************************************************************)
VARIABLES
  count_file,       \* REFERENCE_COUNT_FILE: Absent or the number written
  service_running,  \* the gateway process is alive
  ss_pc,            \* session -> its position in execute_code_command
  ss_count,         \* session -> the local `count` of the call in progress
  ss_fails          \* session -> launching the client raises

sessionVars == <<count_file, service_running, ss_pc, ss_count, ss_fails>>

vars ==
  <<streamVars, pipeVars, requestVars, filterVars, routerVars, registryVars, startVars,
    dispatchVars, rewriteVars, hookVars, concurrentVars, sessionVars>>

\* What a step of one part leaves alone.
exceptStream ==
  <<pipeVars, requestVars, filterVars, routerVars, registryVars, startVars, dispatchVars,
    rewriteVars, hookVars, concurrentVars, sessionVars>>
exceptPipe ==
  <<streamVars, requestVars, filterVars, routerVars, registryVars, startVars, dispatchVars,
    rewriteVars, hookVars, concurrentVars, sessionVars>>
exceptRequest ==
  <<streamVars, pipeVars, filterVars, routerVars, registryVars, startVars, dispatchVars,
    rewriteVars, hookVars, concurrentVars, sessionVars>>
exceptFilter ==
  <<streamVars, pipeVars, requestVars, routerVars, registryVars, startVars, dispatchVars,
    rewriteVars, hookVars, concurrentVars, sessionVars>>
exceptRouter ==
  <<streamVars, pipeVars, requestVars, filterVars, registryVars, startVars, dispatchVars,
    rewriteVars, hookVars, concurrentVars, sessionVars>>
exceptRegistry ==
  <<streamVars, pipeVars, requestVars, filterVars, routerVars, startVars, dispatchVars,
    rewriteVars, hookVars, concurrentVars, sessionVars>>
exceptStart ==
  <<streamVars, pipeVars, requestVars, filterVars, routerVars, registryVars, dispatchVars,
    rewriteVars, hookVars, concurrentVars, sessionVars>>
exceptDispatch ==
  <<streamVars, pipeVars, requestVars, filterVars, routerVars, registryVars, startVars,
    rewriteVars, hookVars, concurrentVars, sessionVars>>
exceptRewrite ==
  <<streamVars, pipeVars, requestVars, filterVars, routerVars, registryVars, startVars,
    dispatchVars, hookVars, concurrentVars, sessionVars>>
exceptHook ==
  <<streamVars, pipeVars, requestVars, filterVars, routerVars, registryVars, startVars,
    dispatchVars, rewriteVars, concurrentVars, sessionVars>>
exceptConcurrent ==
  <<streamVars, pipeVars, requestVars, filterVars, routerVars, registryVars, startVars,
    dispatchVars, rewriteVars, hookVars, sessionVars>>
exceptSession ==
  <<streamVars, pipeVars, requestVars, filterVars, routerVars, registryVars, startVars,
    dispatchVars, rewriteVars, hookVars, concurrentVars>>

\* The local variables of _process_stream as one value.
ConvInit ==
  [model |-> "unknown", has_started |-> FALSE, has_text_content_started |-> FALSE,
   has_finished |-> FALSE, tool_calls |-> <<>>,
   tool_call_index_to_content_block_index |-> <<>>, content_index |-> 0,
   out |-> <<>>, handled |-> <<>>]

Conv ==
  [model |-> model, has_started |-> has_started,
   has_text_content_started |-> has_text_content_started,
   has_finished |-> has_finished, tool_calls |-> tool_calls,
   tool_call_index_to_content_block_index |-> tool_call_index_to_content_block_index,
   content_index |-> content_index, out |-> out, handled |-> handled]

\* writer.write(...) of one event
Emit(S, ev) == [S EXCEPT !.out = Append(@, ev)]

\* f"call_{int(time.time() * 1000)}_{tool_call_index}" and f"tool_{tool_call_index}"
SynId(i) == "call_ts_" \o ToString(i)
SynName(i) == "tool_" \o ToString(i)

\* id.startswith("call_") and name.startswith("tool_"), over the ids and
\* names of the model: upstream ids such as "call_abc" carry the prefix too.
StartsWithCall(id) == id \in {"call_abc"} \cup {SynId(i) : i \in 0..1}
StartsWithTool(name) == name \in {SynName(i) : i \in 0..1}

\* HandleError as it would be if an error chunk ended the conversion.
HandleErrorStops(S, c) == [Emit(S, EvError(c.error)) EXCEPT !.has_finished = TRUE]

\* Handle error responses: one error event, then `continue`.
HandleError(S, c) == Emit(S, EvError(c.error))

\* Record model information.
RecordModel(S, c) == IF c.model # "" THEN [S EXCEPT !.model = c.model] ELSE S

\* Handle message start.
HandleMessageStart(S) ==
  IF ~S.has_started /\ ~S.has_finished
  THEN Emit([S EXCEPT !.has_started = TRUE], EvMessageStart(S.model))
  ELSE S

\* HandleThinking as it would be without `content_index += 1`.
HandleThinkingNoAdvance(S, c) ==
  IF c.thinking.present /\ ~S.has_finished
  THEN IF c.thinking.has_signature
       THEN Emit(Emit(S, EvBlockDelta(S.content_index, "signature_delta", c.thinking.signature)),
                 EvBlockStop(S.content_index))
       ELSE IF c.thinking.content # ""
            THEN Emit(S, EvBlockDelta(S.content_index, "thinking_delta", c.thinking.content))
            ELSE S
  ELSE S

\* Handle thinking content: a signature closes the block at content_index
\* and advances it; thinking text is a delta at content_index.
HandleThinking(S, c) ==
  IF c.thinking.present /\ ~S.has_finished
  THEN IF c.thinking.has_signature
       THEN LET S1 == Emit(S, EvBlockDelta(S.content_index, "signature_delta", c.thinking.signature))
                S2 == Emit(S1, EvBlockStop(S.content_index))
            IN [S2 EXCEPT !.content_index = @ + 1]
       ELSE IF c.thinking.content # ""
            THEN Emit(S, EvBlockDelta(S.content_index, "thinking_delta", c.thinking.content))
            ELSE S
  ELSE S

\* Handle text content: start a text block if none was started, then the delta.
HandleText(S, c) ==
  IF c.content # "" /\ ~S.has_finished
  THEN LET S1 == IF ~S.has_text_content_started /\ ~S.has_finished
                 THEN Emit([S EXCEPT !.has_text_content_started = TRUE],
                           EvBlockStart(S.content_index, "text", "", ""))
                 ELSE S
       IN Emit(S1, EvBlockDelta(S1.content_index, "text_delta", c.content))
  ELSE S

\* A tool call index not yet in tool_calls: end the previous block if one
\* was started, then start a tool_use block and store the tool call.
NewToolCall(S, tc) ==
  LET S1 == IF S.has_text_content_started \/ DOMAIN S.tool_calls # {}
            THEN [Emit(S, EvBlockStop(S.content_index)) EXCEPT !.content_index = @ + 1]
            ELSE S
      tool_call_id == IF tc.id # "" THEN tc.id ELSE SynId(tc.index)
      tool_call_name == IF tc.name # "" THEN tc.name ELSE SynName(tc.index)
      S2 == Emit(S1, EvBlockStart(S1.content_index, "tool_use", tool_call_id, tool_call_name))
  IN [S2 EXCEPT
        !.tool_calls = (tc.index :> [id |-> tool_call_id, name |-> tool_call_name,
                                     arguments |-> "",
                                     content_block_index |-> S1.content_index]) @@ @,
        !.tool_call_index_to_content_block_index = (tc.index :> S1.content_index) @@ @]

\* UpdateToolCall as it would be if a delta with id and name opened a block.
UpdateToolCallReopens(S, tc) ==
  IF tc.id # "" /\ tc.name # "" THEN NewToolCall(S, tc) ELSE S

\* Update existing tool call with new information: only when the delta has
\* an id and a name and the stored id and name are both synthetic.
UpdateToolCall(S, tc) ==
  IF tc.id # "" /\ tc.name # ""
  THEN LET existing == S.tool_calls[tc.index]
       IN IF StartsWithCall(existing.id) /\ StartsWithTool(existing.name)
          THEN [S EXCEPT !.tool_calls[tc.index].id = tc.id,
                         !.tool_calls[tc.index].name = tc.name]
          ELSE S
  ELSE S

\* HandleArguments as it would be if it sent the buffer instead of the fragment.
HandleArgumentsSendsBuffer(S, tc) ==
  IF tc.arguments # "" /\ tc.index \in DOMAIN S.tool_calls
  THEN Emit([S EXCEPT !.tool_calls[tc.index].arguments = @ \o tc.arguments],
            EvBlockDelta(S.tool_call_index_to_content_block_index[tc.index],
                         "input_json_delta", S.tool_calls[tc.index].arguments \o tc.arguments))
  ELSE S

\* Handle tool call arguments: append to the buffer and send the fragment as
\* an input_json_delta of the tool's block.  json.dumps of a string cannot
\* fail, so the sanitising retry of the except branch is not reachable.
HandleArguments(S, tc) ==
  IF tc.arguments # "" /\ tc.index \in DOMAIN S.tool_calls
  THEN Emit([S EXCEPT !.tool_calls[tc.index].arguments = @ \o tc.arguments],
            EvBlockDelta(S.tool_call_index_to_content_block_index[tc.index],
                         "input_json_delta", tc.arguments))
  ELSE S

HandleToolCall(S, tc) ==
  LET S1 == IF tc.index \notin DOMAIN S.tool_calls
            THEN NewToolCall(S, tc)
            ELSE UpdateToolCall(S, tc)
  IN HandleArguments(S1, tc)

\* for tool_call in choice["delta"]["tool_calls"]
RECURSIVE HandleToolCalls(_, _)
HandleToolCalls(S, tcs) ==
  IF tcs = <<>> \/ S.has_finished THEN S
  ELSE HandleToolCalls(HandleToolCall(S, Head(tcs)), Tail(tcs))

\* StopReasonMapping as it would be with the content_filter entry missing.
StopReasonMappingNoFilter(finish_reason) ==
  CASE finish_reason = "stop" -> "end_turn"
    [] finish_reason = "length" -> "max_tokens"
    [] finish_reason = "tool_calls" -> "tool_use"
    [] OTHER -> "end_turn"

\* Map the finish reason (streaming).
StopReasonMapping(finish_reason) ==
  CASE finish_reason = "stop" -> "end_turn"
    [] finish_reason = "length" -> "max_tokens"
    [] finish_reason = "tool_calls" -> "tool_use"
    [] finish_reason = "content_filter" -> "stop_sequence"
    [] OTHER -> "end_turn"

\* HandleFinish as it would be if has_finished were never set.
HandleFinishKeepsRunning(S, c) ==
  IF c.finish_reason # "" /\ ~S.has_finished
  THEN LET S2 == IF S.has_text_content_started \/ DOMAIN S.tool_calls # {}
                 THEN Emit(S, EvBlockStop(S.content_index))
                 ELSE S
           S3 == Emit(S2, EvMessageDelta(StopReasonMapping(c.finish_reason), c.usage))
       IN Emit(S3, EvMessageStop)
  ELSE S

\* Handle finish reason: end the current block, message_delta, message_stop.
HandleFinish(S, c) ==
  IF c.finish_reason # "" /\ ~S.has_finished
  THEN LET S1 == [S EXCEPT !.has_finished = TRUE]
           S2 == IF S1.has_text_content_started \/ DOMAIN S1.tool_calls # {}
                 THEN Emit(S1, EvBlockStop(S1.content_index))
                 ELSE S1
           S3 == Emit(S2, EvMessageDelta(StopReasonMapping(c.finish_reason), c.usage))
       IN Emit(S3, EvMessageStop)
  ELSE S

\* The body of the try block for one parsed chunk.
ProcessChunk(S, c) ==
  IF c.error # "" THEN HandleError(S, c)
  ELSE LET S1 == HandleMessageStart(RecordModel(S, c))
       IN IF ~c.has_choice THEN S1
          ELSE HandleFinish(HandleToolCalls(HandleText(HandleThinking(S1, c), c), c.tool_calls), c)

\* One pass of `for line in lines`.
ProcessLine(S, line) ==
  IF S.has_finished THEN S
  ELSE IF ~StartsWithData(line) THEN S
  ELSE IF DataOf(line) = <<TokDone>> THEN S
  ELSE IF ~JsonParses(DataOf(line)) THEN S
  ELSE ProcessChunk([S EXCEPT !.handled = Append(@, JsonLoads(DataOf(line)))],
                    JsonLoads(DataOf(line)))

RECURSIVE ProcessLines(_, _)
ProcessLines(S, lines) ==
  IF lines = <<>> THEN S ELSE ProcessLines(ProcessLine(S, Head(lines)), Tail(lines))

\* One pass of `async for chunk in response.aiter_bytes()` while not finished.
ProcessRead(S, read) == ProcessLines(S, SplitLines(read))

\* The whole conversion of a sequence of reads.
RECURSIVE ConvertReads(_, _)
ConvertReads(S, reads) ==
  IF reads = <<>> \/ S.has_finished THEN S
  ELSE ConvertReads(ProcessRead(S, Head(reads)), Tail(reads))

(***************************************************************************)
(* The non-streaming converter, _convert_openai_response_to_anthropic.     *)
(* An OpenAI response is [id, model, choices, usage]; a choice is          *)
(* [message |-> [content, tool_calls], finish_reason]; "" stands for an    *)
(* absent or null field.                                                   *)
(***************************************************************************)
\* Map stop reason (non-streaming).
JsonStopReasonMapping(finish_reason) ==
  CASE finish_reason = "stop" -> "end_turn"
    [] finish_reason = "length" -> "max_tokens"
    [] finish_reason = "tool_calls" -> "tool_use"
    [] finish_reason = "content_filter" -> "stop_sequence"
    [] OTHER -> "end_turn"

\* The tool_use blocks of message.tool_calls.  isinstance(arguments_str,
\* object) holds of every value, so the input is the arguments string as it is.
RECURSIVE JsonToolUseBlocks(_)
JsonToolUseBlocks(tcs) ==
  IF tcs = <<>> THEN <<>>
  ELSE <<[type |-> "tool_use", text |-> "", id |-> Head(tcs).id, name |-> Head(tcs).name,
          input |-> Head(tcs).arguments]>> \o JsonToolUseBlocks(Tail(tcs))

ConvertOpenAIResponseToAnthropic(resp) ==
  IF resp.choices = <<>>
  THEN [raised |-> TRUE, id |-> "", model |-> "", content |-> <<>>, stop_reason |-> "",
        usage |-> NoUsage]
  ELSE LET choice == resp.choices[1]
           text == IF choice.message.content # ""
                   THEN <<[type |-> "text", text |-> choice.message.content, id |-> "",
                           name |-> "", input |-> ""]>>
                   ELSE <<>>
       IN [raised |-> FALSE, id |-> resp.id, model |-> resp.model,
           content |-> text \o JsonToolUseBlocks(choice.message.tool_calls),
           stop_reason |-> JsonStopReasonMapping(choice.finish_reason),
           usage |-> [prompt_tokens |-> resp.usage.prompt_tokens,
                      completion_tokens |-> resp.usage.completion_tokens]]

(***************************************************************************)
(* Actions of the streaming converter.                                     *)
(***************************************************************************)
StreamInit ==
  /\ model = ConvInit.model
  /\ has_started = ConvInit.has_started
  /\ has_text_content_started = ConvInit.has_text_content_started
  /\ has_finished = ConvInit.has_finished
  /\ tool_calls = ConvInit.tool_calls
  /\ tool_call_index_to_content_block_index = ConvInit.tool_call_index_to_content_block_index
  /\ content_index = ConvInit.content_index
  /\ out = ConvInit.out
  /\ handled = ConvInit.handled
  /\ fed = <<>>
  /\ discarded = 0
  /\ pc = "reading"

SetConv(S) ==
  /\ model' = S.model
  /\ has_started' = S.has_started
  /\ has_text_content_started' = S.has_text_content_started
  /\ has_finished' = S.has_finished
  /\ tool_calls' = S.tool_calls
  /\ tool_call_index_to_content_block_index' = S.tool_call_index_to_content_block_index
  /\ content_index' = S.content_index
  /\ out' = S.out
  /\ handled' = S.handled

\* The upstream delivers a read and the converter processes its lines.
ReadChunk ==
  /\ pc = "reading"
  /\ ~has_finished
  /\ Len(fed) < MaxReads
  /\ \E r \in ReadSet :
       /\ fed' = Append(fed, r)
       /\ SetConv(ProcessRead(Conv, r))
  /\ UNCHANGED <<discarded, pc, exceptStream>>

\* A read arrives after the finish: `if has_finished: break`, the writer is closed.
BreakAfterFinish ==
  /\ pc = "reading"
  /\ has_finished
  /\ \E r \in ReadSet : fed' = Append(fed, r)
  /\ discarded' = discarded + 1
  /\ pc' = "closed"
  /\ UNCHANGED <<model, has_started, has_text_content_started, has_finished, tool_calls,
                 tool_call_index_to_content_block_index, content_index, out, handled,
                 exceptStream>>

\* The upstream body ends: the loop ends and the writer is closed.
EndOfStream ==
  /\ pc = "reading"
  /\ pc' = "closed"
  /\ UNCHANGED <<model, has_started, has_text_content_started, has_finished, tool_calls,
                 tool_call_index_to_content_block_index, content_index, out, fed, handled,
                 discarded, exceptStream>>

(***************************************************************************)
(* Part II.  The pipeline engine, process_transformer_request.             *)
(***************************************************************************)
\* Longest transformer list of a provider explored.
MaxUse == 2

\* The endpoint transformer the dispatcher bound to the route.
EndpointTransformer == "Anthropic"

\* What a `use` list may hold: transformer instances, which have the four
\* hooks of the Transformer base class, and entries that are no transformer
\* (a name left as a string by the admin API), which have no hook.
UseEntries == {"maxtoken", "tooluse", "rawname"}

HasHooks(t) == t # "rawname"

UseLists == UNION {[1..n -> UseEntries] : n \in 0..MaxUse}

NoResponse == [kind |-> "none", status_code |-> 0]
NoReply == [status_code |-> 0, code |-> "", cause |-> ""]

Call(hook, t) == [hook |-> hook, t |-> t]

\* create_api_error(...) raised inside the handler's try block, and any
\* other exception, end in the handler's `except Exception`: the client
\* gets a 500 request_processing_error whose message names the cause.
OuterExcept(cause) == [status_code |-> 500, code |-> "request_processing_error", cause |-> cause]

PipeIdle ==
  /\ provider_found = TRUE
  /\ use = <<>>
  /\ model_use = <<>>
  /\ is_stream = FALSE
  /\ raising = "none"
  /\ pl_pc = "idle"
  /\ chain_i = 1
  /\ calls = <<>>
  /\ response = NoResponse
  /\ reply = NoReply

PipeInit ==
  /\ provider_found \in BOOLEAN
  /\ use \in UseLists
  /\ model_use \in UseLists
  /\ is_stream \in BOOLEAN
  /\ raising \in {"none", "transform_request_out", "provider_request_in",
                  "model_request_in", "send_unified_request", "transform_response_out"}
  /\ pl_pc = "get_provider"
  /\ chain_i = 1
  /\ calls = <<>>
  /\ response = NoResponse
  /\ reply = NoReply

Fail(cause) ==
  /\ reply' = OuterExcept(cause)
  /\ pl_pc' = "done"

\* provider = provider_service.get_provider(provider_name); if not provider: raise
GetProvider ==
  /\ pl_pc = "get_provider"
  /\ IF provider_found
     THEN pl_pc' = "transform_request_out" /\ UNCHANGED reply
     ELSE Fail("provider_not_found")
  /\ UNCHANGED <<provider_found, use, model_use, is_stream, raising, chain_i, calls,
                 response, exceptPipe>>

\* transform_out = await transformer.transform_request_out(body)
TransformRequestOut ==
  /\ pl_pc = "transform_request_out"
  /\ calls' = Append(calls, Call("transform_request_out", EndpointTransformer))
  /\ IF raising = "transform_request_out"
     THEN Fail("transform_request_out")
     ELSE pl_pc' = "provider_request_in" /\ UNCHANGED reply
  /\ chain_i' = 1
  /\ UNCHANGED <<provider_found, use, model_use, is_stream, raising, response, exceptPipe>>

\* One pass of `for t in transformer_dict['use']`, or the end of the loop.
\* The call is not inside a try: an exception ends the request.
ProviderRequestIn ==
  /\ pl_pc = "provider_request_in"
  /\ IF chain_i > Len(use)
     THEN /\ pl_pc' = "model_request_in"
          /\ chain_i' = 1
          /\ UNCHANGED <<calls, reply>>
     ELSE IF ~HasHooks(use[chain_i])
     THEN /\ chain_i' = chain_i + 1
          /\ UNCHANGED <<calls, reply, pl_pc>>
     ELSE /\ calls' = Append(calls, Call("transform_request_in", use[chain_i]))
          /\ chain_i' = chain_i + 1
          /\ IF raising = "provider_request_in"
             THEN Fail("transform_request_in")
             ELSE UNCHANGED <<reply, pl_pc>>
  /\ UNCHANGED <<provider_found, use, model_use, is_stream, raising, response, exceptPipe>>

\* One pass of `for t in model_transformers`, or the end of the loop.
ModelRequestIn ==
  /\ pl_pc = "model_request_in"
  /\ IF chain_i > Len(model_use)
     THEN /\ pl_pc' = "send_unified_request"
          /\ chain_i' = 1
          /\ UNCHANGED <<calls, reply>>
     ELSE IF ~HasHooks(model_use[chain_i])
     THEN /\ chain_i' = chain_i + 1
          /\ UNCHANGED <<calls, reply, pl_pc>>
     ELSE /\ calls' = Append(calls, Call("transform_request_in", model_use[chain_i]))
          /\ chain_i' = chain_i + 1
          /\ IF raising = "model_request_in"
             THEN Fail("transform_request_in")
             ELSE UNCHANGED <<reply, pl_pc>>
  /\ UNCHANGED <<provider_found, use, model_use, is_stream, raising, response, exceptPipe>>

\* What send_unified_request returns for an upstream answer of status s: for
\* a streaming request the body text it read, otherwise the httpx response.
SendResult(stream, s) ==
  IF stream THEN [kind |-> "str", status_code |-> s]
  ELSE [kind |-> "response", status_code |-> s]

UpstreamStatuses == {200, 404, 500}

\* response = await send_unified_request(url, request_body, request_config)
SendUnifiedRequest ==
  /\ pl_pc = "send_unified_request"
  /\ calls' = Append(calls, Call("upstream", "provider"))
  /\ IF raising = "send_unified_request"
     THEN Fail("provider_connection_error") /\ UNCHANGED response
     ELSE /\ \E s \in UpstreamStatuses : response' = SendResult(is_stream, s)
          /\ pl_pc' = "handle_response"
          /\ UNCHANGED reply
  /\ UNCHANGED <<provider_found, use, model_use, is_stream, raising, chain_i, exceptPipe>>

\* The exception the code after send_unified_request raises: a str result
\* raises provider_error, a status other than 200 raises
\* provider_response_error, and for a 200 `provider.get(...)` raises
\* AttributeError, LLMProvider being a dataclass without a get method.
AfterSendRaises(resp) ==
  IF resp.kind = "str" THEN "provider_error"
  ELSE IF resp.status_code # 200 THEN "provider_response_error"
  ELSE "AttributeError"

\* The handler from `if isinstance(response, str)` to its end.
HandleResponse ==
  /\ pl_pc = "handle_response"
  /\ Fail(AfterSendRaises(response))
  /\ UNCHANGED <<provider_found, use, model_use, is_stream, raising, chain_i, calls,
                 response, exceptPipe>>

(***************************************************************************)
(* Part III.  The data of a request on its way to the provider:            *)
(* AnthropicTransformer.transform_request_out, the transform_request_in of *)
(* the provider transformers, and send_unified_request.                    *)
(***************************************************************************)
MaxMessages == 1

\* The client's body (Anthropic dialect).  `system` is absent, a string or
\* a list of text items.  A message is a role and the kind of its content:
\* a string, or a list holding one tool_result part.  A tool carries an
\* input_schema with one string property; `schema` says whether the schema
\* has a "$schema" key and `format` is the property's format, "" when it
\* has none.
SystemKinds == {"absent", "str", "list"}

ClientMessages ==
  {[role |-> "user", content |-> "str"],
   [role |-> "user", content |-> "tool_result"],
   [role |-> "system", content |-> "str"]}

ClientMessageLists == UNION {[1..n -> ClientMessages] : n \in 0..MaxMessages}

InputSchemas == {[schema |-> TRUE, format |-> "uri"], [schema |-> FALSE, format |-> ""]}

ClientToolLists == {<<>>} \cup {<<[name |-> "f", input_schema |-> sch]>> : sch \in InputSchemas}

Bodies == [system : SystemKinds, messages : ClientMessageLists, tools : ClientToolLists]

\* The transformers a provider's lists hold in this part.
RequestUseEntries == {"tooluse", "groq", "gemini"}

RequestUseLists(n) == [1..n -> RequestUseEntries]

\* The provider list and the per-model list of one provider.
RequestChains ==
  UNION {RequestUseLists(n) \X RequestUseLists(m) : <<n, m>> \in {p \in (0..MaxUse) \X (0..MaxUse) : p[1] + p[2] <= MaxUse}}

\* A unified message is a role and the Python type that holds it; a unified
\* tool is a name, the Python type that holds it, and its parameters: the
\* client's input_schema object itself, or a dict of its own.
UMessage(role, repr) == [role |-> role, repr |-> repr]
UTool(name, repr, parameters) == [name |-> name, repr |-> repr, parameters |-> parameters]

\* An empty dict, and dict.get(key) or {} for a dict of dicts.
EmptyDict == <<>>
GetOrEmpty(d, key) == IF key \in DOMAIN d THEN d[key] ELSE EmptyDict

\* A value handed from hook to hook: its Python type, the keys it has when
\* it is a dict, the messages and tools it holds, and the value under its
\* "config" key when it has one.
Value(type, keys, messages, tools, tool_choice, config_item) ==
  [type |-> type, keys |-> keys, messages |-> messages, tools |-> tools,
   tool_choice |-> tool_choice, config_item |-> config_item]

\* The fields of a UnifiedChatRequest.
UnifiedFields ==
  {"messages", "model", "max_tokens", "temperature", "stream", "tools", "tool_choice"}

\* request_body = body
ClientBodyValue == Value("dict", {"model", "messages", "system", "tools"}, <<>>, <<>>, "", EmptyDict)

\* hasattr(v, name): the attributes of the classes of the values
Attributes(type) ==
  IF type = "UnifiedChatRequest"
  THEN UnifiedFields \cup {"to_dict", "__dict__"}
  ELSE {"get", "keys", "items"}

HasAttr(v, name) == name \in Attributes(v.type)

\* The messages transform_request_out builds for the client's messages.
RECURSIVE ConvertMessages(_)
ConvertMessages(ms) ==
  IF ms = <<>> THEN <<>>
  ELSE (IF Head(ms).role \notin {"user", "assistant"} THEN <<>>
        ELSE IF Head(ms).content = "str" THEN <<UMessage(Head(ms).role, "dict")>>
        ELSE IF Head(ms).role = "user" THEN <<UMessage("tool", "dict")>>
        ELSE <<UMessage("assistant", "dict")>>)
       \o ConvertMessages(Tail(ms))

\* _convert_anthropic_tools_to_unified: "parameters" is tool.get("input_schema"),
\* the client's object, not a copy.
ConvertAnthropicToolsToUnified(tools) ==
  [k \in 1..Len(tools) |-> UTool(tools[k].name, "dict", "client")]

\* UnifiedChatRequest.__post_init__: dict messages and dict tools are
\* replaced by UnifiedMessage and UnifiedTool objects.
PostInit(messages, tools) ==
  Value("UnifiedChatRequest", {},
        [k \in 1..Len(messages) |-> UMessage(messages[k].role, "UnifiedMessage")],
        [k \in 1..Len(tools) |-> UTool(tools[k].name, "UnifiedTool", tools[k].parameters)],
        "", EmptyDict)

\* AnthropicTransformer.transform_request_out
AnthropicTransformRequestOut(b) ==
  PostInit((IF b.system = "absent" THEN <<>> ELSE <<UMessage("system", "dict")>>)
              \o ConvertMessages(b.messages),
           ConvertAnthropicToolsToUnified(b.tools))

\* What a hook call comes to: it raised, or it returned `value`; `body` is
\* the client's body after the call.
Returned(v, b) == [raised |-> FALSE, value |-> v, body |-> b]
Raised(v, b) == [raised |-> TRUE, value |-> v, body |-> b]

\* request.__dict__ if hasattr(request, '__dict__') else request
DictOf(v) ==
  IF HasAttr(v, "__dict__") THEN [v EXCEPT !.type = "dict", !.keys = UnifiedFields] ELSE v

\* The system message and the tool TooluseTransformer adds.
SystemReminder == UMessage("system", "dict")
ExitTool == UTool("ExitTool", "dict", "own")

\* TooluseTransformer.transform_request_in
TooluseTransformRequestIn(v, b) ==
  LET request_dict == DictOf(v)
      with_system == IF "messages" \in request_dict.keys
                     THEN [request_dict EXCEPT !.messages = Append(@, SystemReminder)]
                     ELSE request_dict
  IN  Returned(IF "tools" \in with_system.keys /\ with_system.tools # <<>>
               THEN [with_system EXCEPT !.tool_choice = "required",
                                        !.tools = <<ExitTool>> \o @]
               ELSE with_system,
               b)

\* GroqTransformer.transform_request_in: reads request.messages and
\* request.tools as attributes; tool.function is a dict, which has no
\* attribute `parameters`, so no "$schema" key is deleted.
GroqTransformRequestIn(v, b) ==
  IF ~HasAttr(v, "messages") THEN Raised(v, b) ELSE Returned(v, b)

\* The formats GeminiTransformer keeps on a string property.
GeminiKeepsFormat(format) == format \in {"", "enum", "date-time"}

\* The config GeminiTransformer returns beside the body.
GeminiConfig(key) ==
  ("url" :> "gemini url")
    @@ ("headers" :> (("x-goog-api-key" :> key) @@ ("Authorization" :> "None")))

\* GeminiTransformer.transform_request_in: the parameters of a tool are
\* copied one level deep, so "$schema" is deleted from the copy, but the
\* property dicts below are the client's and `del prop["format"]` acts on
\* the client's body.
GeminiTransformRequestIn(v, b, key) ==
  IF ~HasAttr(v, "messages") THEN Raised(v, b)
  ELSE Returned(
         Value("dict", {"body", "config"}, <<>>, <<>>, "", GeminiConfig(key)),
         [b EXCEPT !.tools =
            [k \in 1..Len(b.tools) |->
               IF k <= Len(v.tools) /\ v.tools[k].parameters = "client"
                  /\ ~GeminiKeepsFormat(b.tools[k].input_schema.format)
               THEN [b.tools[k] EXCEPT !.input_schema.format = ""]
               ELSE b.tools[k]]])

\* await t.transform_request_in(request_body, provider)
TransformRequestIn(t, v, b, key) ==
  CASE t = "tooluse" -> TooluseTransformRequestIn(v, b)
    [] t = "groq" -> GroqTransformRequestIn(v, b)
    [] t = "gemini" -> GeminiTransformRequestIn(v, b, key)

\* {**config, **(transform_in.config or {})}
MergeConfig(cfg, new) == new @@ cfg

\* The handler's reading of a hook result: a result with a `body`
\* attribute gives the body and its config, any other result is the body.
\* A dict with a "body" key has no `body` attribute.
ReadHookResult(cfg, result) ==
  IF HasAttr(result, "body")
  THEN [request_body |-> result, config |-> MergeConfig(cfg, result.config_item)]
  ELSE [request_body |-> result, config |-> cfg]

\* Variant of RequestHeaders in which the hooks' headers are sent as they are.
RequestHeadersFromConfigOnly(cfg, key) == GetOrEmpty(cfg, "headers")

\* 'headers': {'Authorization': f"Bearer {provider.api_key}", **(config.get('headers') or {})}
RequestHeaders(cfg, key) ==
  GetOrEmpty(cfg, "headers") @@ ("Authorization" :> ("Bearer " \o key))

\* send_unified_request: headers = {"Content-Type": ...}; headers.update(config["headers"])
SendHeaders(request_headers) == request_headers @@ ("Content-Type" :> "application/json")

\* json.dumps of the request: a UnifiedChatRequest goes through to_dict(),
\* a dict is dumped as it is and must hold no UnifiedMessage or UnifiedTool.
Serializable(v) ==
  \/ v.type = "UnifiedChatRequest"
  \/ /\ \A k \in 1..Len(v.messages) : v.messages[k].repr = "dict"
     /\ \A k \in 1..Len(v.tools) : v.tools[k].repr = "dict"

NotSent == [posted |-> FALSE, headers |-> EmptyDict, roles |-> <<>>, keys |-> {}]

\* The POST made by client.post / client.stream.
Posted(headers, v) ==
  [posted |-> TRUE, headers |-> headers,
   roles |-> [k \in 1..Len(v.messages) |-> v.messages[k].role],
   keys |-> IF v.type = "dict" THEN v.keys ELSE UnifiedFields]

RequestIdle ==
  /\ body = [system |-> "absent", messages |-> <<>>, tools |-> <<>>]
  /\ api_key = ""
  /\ transformer_use = <<>>
  /\ model_transformers = <<>>
  /\ request_body = ClientBodyValue
  /\ config = EmptyDict
  /\ rq_pc = "idle"
  /\ rq_i = 1
  /\ sent = NotSent

RequestInit ==
  /\ body \in Bodies
  /\ api_key \in {"", "k"}
  /\ \E ch \in RequestChains : transformer_use = ch[1] /\ model_transformers = ch[2]
  /\ request_body = ClientBodyValue
  /\ config = EmptyDict
  /\ rq_pc = "transform_request_out"
  /\ rq_i = 1
  /\ sent = NotSent

\* transform_out = await transformer.transform_request_out(body); the
\* result has no `body` attribute, so request_body = transform_out.
ApplyTransformRequestOut ==
  /\ rq_pc = "transform_request_out"
  /\ LET r == ReadHookResult(config, AnthropicTransformRequestOut(body))
     IN  request_body' = r.request_body /\ config' = r.config
  /\ rq_pc' = "provider_transformers"
  /\ rq_i' = 1
  /\ UNCHANGED <<body, api_key, transformer_use, model_transformers, sent, exceptRequest>>

\* One pass of a transformer loop over the list `ts`, which ends at `next`.
ApplyTransformer(ts, next) ==
  IF rq_i > Len(ts)
  THEN /\ rq_pc' = next
       /\ rq_i' = 1
       /\ UNCHANGED <<body, request_body, config>>
  ELSE LET res == TransformRequestIn(ts[rq_i], request_body, body, api_key)
           r == ReadHookResult(config, res.value)
       IN  /\ body' = res.body
           /\ rq_i' = rq_i + 1
           /\ IF res.raised
              THEN rq_pc' = "failed" /\ UNCHANGED <<request_body, config>>
              ELSE /\ request_body' = r.request_body
                   /\ config' = r.config
                   /\ UNCHANGED rq_pc

\* for t in transformer_dict['use']: ...
ApplyProviderTransformer ==
  /\ rq_pc = "provider_transformers"
  /\ ApplyTransformer(transformer_use, "model_transformers")
  /\ UNCHANGED <<api_key, transformer_use, model_transformers, sent, exceptRequest>>

\* for t in model_transformers: ...
ApplyModelTransformer ==
  /\ rq_pc = "model_transformers"
  /\ ApplyTransformer(model_transformers, "send_unified_request")
  /\ UNCHANGED <<api_key, transformer_use, model_transformers, sent, exceptRequest>>

\* request_config = {...}; response = await send_unified_request(url,
\* request_body, request_config): the body is serialised and posted with
\* the headers; a body json.dumps cannot serialise is not posted.
PostUnifiedRequest ==
  /\ rq_pc = "send_unified_request"
  /\ LET headers == SendHeaders(RequestHeaders(config, api_key))
     IN  IF Serializable(request_body) /\ \A h \in DOMAIN headers : headers[h] # "None"
         THEN sent' = Posted(headers, request_body) /\ rq_pc' = "posted"
         ELSE rq_pc' = "failed" /\ UNCHANGED sent
  /\ UNCHANGED <<body, api_key, transformer_use, model_transformers, request_body, config,
                 rq_i, exceptRequest>>

NextRequest ==
  \/ ApplyTransformRequestOut
  \/ ApplyProviderTransformer
  \/ ApplyModelTransformer
  \/ PostUnifiedRequest

(***************************************************************************)
(* Part IV.  The provider-selection filter, model_provider_middleware.     *)
(***************************************************************************)
MaxModelLen == 3

\* A model string is the sequence of its characters.
ModelChars == {"a", "b", ","}

ModelStrings == UNION {[1..n -> ModelChars] : n \in 0..MaxModelLen}

\* What the filter finds in the request: a body json.loads rejects, an
\* empty object, an object without "model", an object whose model is not a
\* string, or an object with a model string.
NoString == <<>>
RawBodies ==
  {[kind |-> k, model |-> NoString] : k \in {"unparseable", "empty", "no_model", "model_not_str"}}
    \cup {[kind |-> "model", model |-> m] : m \in ModelStrings}

\* request.state.provider
NoProvider == [set |-> FALSE, name |-> NoString]
Provider(name) == [set |-> TRUE, name |-> name]

\* The provider the filter falls back to.
Ollama == <<"ollama">>

\* "," in model_value
HasComma(s) == \E k \in 1..Len(s) : s[k] = ","

\* model_value.split(",", 1) of a string with a comma: the text before the
\* first comma and the text after it.
RECURSIVE SplitOnce(_, _)
SplitOnce(head, rest) ==
  IF Head(rest) = "," THEN <<head, Tail(rest)>>
  ELSE SplitOnce(Append(head, Head(rest)), Tail(rest))

FilterIdle ==
  /\ method = "GET"
  /\ raw_body = [kind |-> "empty", model |-> NoString]
  /\ state_provider = NoProvider
  /\ fwd_model = NoString
  /\ mw_pc = "idle"

FilterInit ==
  /\ method \in {"GET", "POST"}
  /\ raw_body \in RawBodies
  /\ state_provider = NoProvider
  /\ fwd_model = raw_body.model
  /\ mw_pc = "filter"

\* The branch on the model string: a model with a comma is split, the body
\* is rebuilt with the bare model and the provider is put in the request
\* state; any other model gets the provider "ollama".
SetProvider(model_value) ==
  IF HasComma(model_value)
  THEN /\ state_provider' = Provider(SplitOnce(<<>>, model_value)[1])
       /\ fwd_model' = SplitOnce(<<>>, model_value)[2]
  ELSE /\ state_provider' = Provider(Ollama)
       /\ UNCHANGED fwd_model

\* The filter up to `response = await call_next(request)`.  A body that
\* does not parse, an empty body and a body without "model" go on
\* untouched; a model that is not a string raises inside the try and goes
\* on untouched as well.
ModelProviderMiddleware ==
  /\ mw_pc = "filter"
  /\ mw_pc' = "call_next"
  /\ IF method = "POST" /\ raw_body.kind = "model"
     THEN SetProvider(raw_body.model)
     ELSE UNCHANGED <<state_provider, fwd_model>>
  /\ UNCHANGED <<method, raw_body, exceptFilter>>

NextFilter == ModelProviderMiddleware

(***************************************************************************)
(* Part V.  The router's model selection, get_use_model.                   *)
(***************************************************************************)
LongContextThreshold == 60000

MaxNameLen == 3

\* A model name is a sequence of pieces; the pieces that matter to the
\* router are the comma and the prefix "claude-3-5-haiku".
NamePieces == {"claude-3-5-haiku", "x", ","}

ModelNames == UNION {[1..n -> NamePieces] : n \in 0..MaxNameLen}

\* The models the Router section names; an entry that is absent or empty
\* is the empty name.
Unset == <<>>
RouterConfigs ==
  [longContext : {Unset, <<"lc">>}, background : {Unset, <<"bg">>},
   think : {Unset, <<"th">>}, default : {Unset, <<"df">>}]

TokenCounts == {LongContextThreshold - 1, LongContextThreshold, LongContextThreshold + 1}

NoModel == <<"no model">>

\* The headers of a fresh response.
NoHeaders == [x_selected_model |-> NoModel]

\* model.startswith("claude-3-5-haiku")
StartsWithHaiku(m) == m # <<>> /\ m[1] = "claude-3-5-haiku"

\* Variant of GetUseModel whose long-context test is not strict.
GetUseModelAtThreshold(request, count, cfg) ==
  IF HasComma(request.model) THEN request.model
  ELSE IF count >= LongContextThreshold /\ cfg.longContext # Unset THEN cfg.longContext
  ELSE IF StartsWithHaiku(request.model) /\ cfg.background # Unset THEN cfg.background
  ELSE IF request.thinking /\ cfg.think # Unset THEN cfg.think
  ELSE cfg.default

\* get_use_model(request, token_count, config)
GetUseModel(request, count, cfg) ==
  IF HasComma(request.model) THEN request.model
  ELSE IF count > LongContextThreshold /\ cfg.longContext # Unset THEN cfg.longContext
  ELSE IF StartsWithHaiku(request.model) /\ cfg.background # Unset THEN cfg.background
  ELSE IF request.thinking /\ cfg.think # Unset THEN cfg.think
  ELSE cfg.default

RouterIdle ==
  /\ rt_request = [model |-> <<>>, thinking |-> FALSE]
  /\ token_count = 0
  /\ router_config = [longContext |-> Unset, background |-> Unset, think |-> Unset,
                      default |-> Unset]
  /\ use_model = NoModel
  /\ rt_headers = NoHeaders
  /\ rt_calls = <<>>
  /\ rt_pc = "idle"

RouterInit ==
  /\ rt_request \in [model : ModelNames, thinking : BOOLEAN]
  /\ token_count \in TokenCounts
  /\ router_config \in RouterConfigs
  /\ use_model = NoModel
  /\ rt_headers = NoHeaders
  /\ rt_calls = <<>>
  /\ rt_pc = "call"

\* Variant of CallGetUseModel that applies the rules to the first request
\* only and answers default after it.
CallGetUseModelFirstOnly ==
  /\ rt_pc = "call"
  /\ use_model' = IF rt_calls = <<>>
                  THEN GetUseModel(rt_request, token_count, router_config)
                  ELSE router_config.default
  /\ rt_calls' = Append(rt_calls, [request |-> rt_request, token_count |-> token_count,
                                   config |-> router_config, model |-> use_model'])
  /\ rt_pc' = "returned"
  /\ UNCHANGED <<rt_request, token_count, router_config, rt_headers, exceptRouter>>

\* model = get_use_model(request_data, token_count, config)
CallGetUseModel ==
  /\ rt_pc = "call"
  /\ use_model' = GetUseModel(rt_request, token_count, router_config)
  /\ rt_calls' = Append(rt_calls, [request |-> rt_request, token_count |-> token_count,
                                   config |-> router_config, model |-> use_model'])
  /\ rt_pc' = "returned"
  /\ UNCHANGED <<rt_request, token_count, router_config, rt_headers, exceptRouter>>

\* The rest of router(): the model goes into the response header
\* X-Selected-Model and into the log; the request is not written to.
RouterReturns ==
  /\ rt_pc = "returned"
  /\ rt_headers' = [rt_headers EXCEPT !.x_selected_model = use_model]
  /\ rt_pc' = "done"
  /\ UNCHANGED <<rt_request, token_count, router_config, use_model, rt_calls,
                 exceptRouter>>

NextRouter == CallGetUseModel \/ RouterReturns

\* The router on a series of requests under one config.
MaxCalls == 2

\* Names with and without a comma and the haiku prefix.
CallModels == {<<>>, <<"x">>, <<"claude-3-5-haiku">>, <<"x", ",", "x">>}

RouterCallsInit ==
  /\ rt_request \in [model : CallModels, thinking : BOOLEAN]
  /\ token_count \in TokenCounts
  /\ router_config \in RouterConfigs
  /\ use_model = NoModel
  /\ rt_headers = NoHeaders
  /\ rt_calls = <<>>
  /\ rt_pc = "call"

\* The next request arrives: router() is called again with the same config
\* and a fresh response.
RouterNextRequest ==
  /\ rt_pc = "done"
  /\ Len(rt_calls) < MaxCalls
  /\ rt_request' \in [model : CallModels, thinking : BOOLEAN]
  /\ token_count' \in TokenCounts
  /\ use_model' = NoModel
  /\ rt_headers' = NoHeaders
  /\ rt_pc' = "call"
  /\ UNCHANGED <<router_config, rt_calls, exceptRouter>>

NextRouterCalls == CallGetUseModel \/ RouterReturns \/ RouterNextRequest

(***************************************************************************)
(* Part VI.  The provider registry, ProviderService, and the admin         *)
(* endpoints over it.                                                      *)
(***************************************************************************)
MaxProviders == 2

ProviderNames == {"p", "q"}
Models == {"a", "b"}
ModelLists == {<<>>, <<"a">>, <<"b">>, <<"a", "b">>}

\* A Python dict as a function on its keys.
NoEntries == [k \in {} |-> k]
Put(d, key, value) == [k \in DOMAIN d \cup {key} |-> IF k = key THEN value ELSE d[k]]
Pop(d, key) == [k \in DOMAIN d \ {key} |-> d[k]]

Elements(list) == {list[k] : k \in 1..Len(list)}

\* f"{provider.name},{model}"
FullModel(name, m) == name \o "," \o m

ModelRoute(name, m) == [provider |-> name, model |-> m, full_model |-> FullModel(name, m)]

LLMProvider(name, key, models) == [name |-> name, api_key |-> key, models |-> models]

\* The loop of register_provider and update_provider that adds the routes
\* of a list of models: the full key always, the bare key when it is free.
RECURSIVE AddRoutes(_, _, _)
AddRoutes(routes, name, models) ==
  IF models = <<>> THEN routes
  ELSE LET m == Head(models)
           withFull == Put(routes, FullModel(name, m), ModelRoute(name, m))
           withBare == IF m \in DOMAIN withFull THEN withFull
                       ELSE Put(withFull, m, ModelRoute(name, m))
       IN  AddRoutes(withBare, name, Tail(models))

\* The loop of update_provider and delete_provider that removes the routes
\* of a list of models: the full key, and the bare key when it is this
\* provider's.
RECURSIVE RemoveRoutes(_, _, _)
RemoveRoutes(routes, name, models) ==
  IF models = <<>> THEN routes
  ELSE LET m == Head(models)
           noFull == Pop(routes, FullModel(name, m))
           noBare == IF m \in DOMAIN noFull /\ noFull[m].provider = name
                     THEN Pop(noFull, m) ELSE noFull
       IN  RemoveRoutes(noBare, name, Tail(models))

\* The registry as one value, and what a service method gives back.
Registry(p, r) == [providers |-> p, model_routes |-> r]
Outcome(found, reg) == [found |-> found, registry |-> reg]

\* ProviderService.register_provider
RegisterProvider(reg, request) ==
  Registry(Put(reg.providers, request.name,
               LLMProvider(request.name, request.api_key, request.models)),
           AddRoutes(reg.model_routes, request.name, request.models))

\* ProviderService.get_provider: is there a record under the name
HasProvider(reg, name) == name \in DOMAIN reg.providers

\* The keys of an update: attributes of LLMProvider.
UpdateKeys == {"models", "api_key"}
Updates ==
  {u \in [keys : SUBSET UpdateKeys, models : ModelLists, api_key : {"k2"}] :
     "models" \notin u.keys => u.models = <<>>}

\* The setattr loop of update_provider.
SetAttributes(provider, updates) ==
  [provider EXCEPT
     !.models = IF "models" \in updates.keys THEN updates.models ELSE @,
     !.api_key = IF "api_key" \in updates.keys THEN updates.api_key ELSE @]

\* Variant of ServiceUpdateProvider that creates the record it does not
\* find.
ServiceUpdateProviderCreates(reg, provider_id, updates) ==
  Outcome(TRUE,
          Registry(Put(reg.providers, provider_id,
                       LLMProvider(provider_id, updates.api_key, updates.models)),
                   AddRoutes(reg.model_routes, provider_id, updates.models)))

\* ProviderService.update_provider.  The old models are read from the
\* record after the setattr loop has written the new ones into it.
ServiceUpdateProvider(reg, provider_id, updates) ==
  IF ~HasProvider(reg, provider_id) THEN Outcome(FALSE, reg)
  ELSE LET provider == SetAttributes(reg.providers[provider_id], updates)
           stored == Put(reg.providers, provider_id, provider)
           old_models == provider.models
       IN  IF "models" \in updates.keys
           THEN Outcome(TRUE,
                  Registry(stored,
                           AddRoutes(RemoveRoutes(reg.model_routes, provider.name,
                                                  old_models),
                                     provider.name, updates.models)))
           ELSE Outcome(TRUE, Registry(stored, reg.model_routes))

\* ProviderService.delete_provider
ServiceDeleteProvider(reg, provider_id) ==
  IF ~HasProvider(reg, provider_id) THEN Outcome(FALSE, reg)
  ELSE LET provider == reg.providers[provider_id]
       IN  Outcome(TRUE,
                   Registry(Pop(reg.providers, provider_id),
                            RemoveRoutes(reg.model_routes, provider.name,
                                         provider.models)))

\* ProviderService.toggle_provider
ServiceToggleProvider(reg, name, enabled) == Outcome(HasProvider(reg, name), reg)

\* ProviderService.resolve_model_route
NoRouteInfo == [found |-> FALSE, provider |-> "", target_model |-> ""]
ResolveModelRoute(reg, model_name) ==
  IF model_name \notin DOMAIN reg.model_routes THEN NoRouteInfo
  ELSE LET route == reg.model_routes[model_name]
       IN  IF route.provider \notin DOMAIN reg.providers THEN NoRouteInfo
           ELSE [found |-> TRUE, provider |-> route.provider,
                 target_model |-> route.model]

\* The providers array of the config file: an entry without a name is
\* skipped.
ConfigProviders ==
  UNION {[1..n -> [name : ProviderNames \cup {""}, models : ModelLists]] :
           n \in 0..MaxProviders}

\* ProviderService._initialize_from_providers_array
RECURSIVE InitializeFromProvidersArray(_, _)
InitializeFromProvidersArray(reg, providers_config) ==
  IF providers_config = <<>> THEN reg
  ELSE LET provider_config == Head(providers_config)
           next == IF provider_config.name = "" THEN reg
                   ELSE RegisterProvider(reg, [name |-> provider_config.name,
                                               api_key |-> "k",
                                               models |-> provider_config.models])
       IN  InitializeFromProvidersArray(next, Tail(providers_config))

\* The replies of the admin endpoints.
Ok == [status |-> 200, code |-> "ok"]
InvalidRequest == [status |-> 400, code |-> "invalid_request"]
ProviderExists == [status |-> 400, code |-> "provider_exists"]
ProviderNotFound == [status |-> 404, code |-> "provider_not_found"]

\* An admin request: the endpoint, the name it is about, whether its body
\* passes the endpoint's checks, the keys of an update and the models sent.
Op(op, name, valid, keys, models) ==
  [op |-> op, name |-> name, valid |-> valid, keys |-> keys, models |-> models]

RegistryIdle ==
  /\ providers = NoEntries
  /\ model_routes = NoEntries
  /\ pv_op = Op("idle", "", TRUE, {}, <<>>)
  /\ pv_reply = Ok

\* The registry after ProviderService.__init__.
RegistryInit ==
  /\ \E providers_config \in ConfigProviders :
        LET reg == InitializeFromProvidersArray(Registry(NoEntries, NoEntries),
                                                providers_config)
        IN  providers = reg.providers /\ model_routes = reg.model_routes
  /\ pv_op = Op("startup", "", TRUE, {}, <<>>)
  /\ pv_reply = Ok

CurrentRegistry == Registry(providers, model_routes)

\* The bodies of POST /providers.
RegisterProviderRequests ==
  [name : ProviderNames \cup {""}, base_url : {"", "http://h"}, api_key : {"k"},
   models : ModelLists]

\* The four checks of create_provider before the lookup.
ValidRequest(request) ==
  /\ request.name # ""
  /\ request.base_url # ""
  /\ request.api_key # ""
  /\ request.models # <<>>

\* Variant of CreateProvider without the lookup of the name.
CreateProviderOverwrites ==
  \E request \in RegisterProviderRequests :
    /\ pv_op' = Op("create", request.name, ValidRequest(request), {}, request.models)
    /\ IF ~ValidRequest(request)
       THEN pv_reply' = InvalidRequest /\ UNCHANGED <<providers, model_routes>>
       ELSE LET reg == RegisterProvider(CurrentRegistry, request)
            IN  /\ providers' = reg.providers
                /\ model_routes' = reg.model_routes
                /\ pv_reply' = Ok
    /\ UNCHANGED exceptRegistry

\* POST /providers
CreateProvider ==
  \E request \in RegisterProviderRequests :
    /\ pv_op' = Op("create", request.name, ValidRequest(request), {}, request.models)
    /\ IF ~ValidRequest(request)
       THEN pv_reply' = InvalidRequest /\ UNCHANGED <<providers, model_routes>>
       ELSE IF HasProvider(CurrentRegistry, request.name)
       THEN pv_reply' = ProviderExists /\ UNCHANGED <<providers, model_routes>>
       ELSE LET reg == RegisterProvider(CurrentRegistry, request)
            IN  /\ providers' = reg.providers
                /\ model_routes' = reg.model_routes
                /\ pv_reply' = Ok
    /\ UNCHANGED exceptRegistry

\* PUT /providers/{id}
UpdateProvider ==
  \E id \in ProviderNames, updates \in Updates :
    LET result == ServiceUpdateProvider(CurrentRegistry, id, updates)
    IN  /\ pv_op' = Op("update", id, TRUE, updates.keys, updates.models)
        /\ providers' = result.registry.providers
        /\ model_routes' = result.registry.model_routes
        /\ pv_reply' = IF result.found THEN Ok ELSE ProviderNotFound
        /\ UNCHANGED exceptRegistry

\* DELETE /providers/{id}
DeleteProvider ==
  \E id \in ProviderNames :
    LET result == ServiceDeleteProvider(CurrentRegistry, id)
    IN  /\ pv_op' = Op("delete", id, TRUE, {}, <<>>)
        /\ providers' = result.registry.providers
        /\ model_routes' = result.registry.model_routes
        /\ pv_reply' = IF result.found THEN Ok ELSE ProviderNotFound
        /\ UNCHANGED exceptRegistry

\* PATCH /providers/{id}/toggle
ToggleProvider ==
  \E id \in ProviderNames, enabled \in BOOLEAN :
    LET result == ServiceToggleProvider(CurrentRegistry, id, enabled)
    IN  /\ pv_op' = Op("toggle", id, TRUE, {}, <<>>)
        /\ providers' = result.registry.providers
        /\ model_routes' = result.registry.model_routes
        /\ pv_reply' = IF result.found THEN Ok ELSE ProviderNotFound
        /\ UNCHANGED exceptRegistry

NextRegistry == CreateProvider \/ UpdateProvider \/ DeleteProvider \/ ToggleProvider

(***************************************************************************)
(* Part VII.  Start-up of the router process, run(), and the pre-handler   *)
(* hooks a request passes: the bind address and the API key check.         *)
(***************************************************************************)
\* A key a dict does not hold.
None == "None"

Loopback == "127.0.0.1"
Hosts == {Loopback, "0.0.0.0", "192.168.1.5"}

\* The config file: HOST and APIKEY are absent, empty or set.
FileConfigs == [HOST : Hosts \cup {None, ""}, APIKEY : {None, "", "k"}]

\* dict.get(key) is truthy
Truthy(value) == value # None /\ value # ""

\* init_config: every string value of the config file is written to
\* os.environ.
InitConfigEnviron(env, cfg) ==
  [HOST |-> IF cfg.HOST # None THEN cfg.HOST ELSE env.HOST]

\* host of run(): the file's HOST, the loopback address when the file has
\* none or has one and no APIKEY.
RunHost(cfg) ==
  LET first == IF cfg.HOST # None THEN cfg.HOST ELSE Loopback
  IN  IF Truthy(cfg.HOST) /\ ~Truthy(cfg.APIKEY) THEN Loopback ELSE first

\* ConfigService.load_config as create_server sets it up: the JSON file,
\* then initial_config over it, then os.environ over both.
LoadConfig(cfg, initial_host, env) ==
  LET json_config == [HOST |-> cfg.HOST]
      with_initial == [json_config EXCEPT !.HOST = initial_host]
  IN  [with_initial EXCEPT !.HOST = IF env.HOST # None THEN env.HOST ELSE @]

\* ConfigService.get(key, default_value)
ConfigGet(cfg, default_value) ==
  IF cfg.HOST # None THEN cfg.HOST ELSE default_value

\* A request the hooks see.  request.url is the whole URL; a header value
\* is the list of its parts between spaces, empty when the header is absent.
Origin == "http://127.0.0.1:3456"
Paths == {"/", "/health", "/v1/messages"}
AuthorizationValues == {<<>>, <<"Bearer", "k">>, <<"Bearer", "x">>, <<"Bearer">>, <<"k">>}
ApiKeyValues == {<<>>, <<"k">>, <<"x">>}
AuthRequests ==
  [origin : {Origin}, path : Paths, authorization : AuthorizationValues,
   x_api_key : ApiKeyValues]

\* str(request.url) == other, which is how a URL compares with a string
UrlEquals(request, other) == request.origin \o request.path = other

Done == [kind |-> "done", status_code |-> 200, body |-> ""]
Rejected(text) == [kind |-> "rejected", status_code |-> 401, body |-> text]
TypeError == [kind |-> "raised", status_code |-> 200, body |-> "TypeError"]
IndexError == [kind |-> "raised", status_code |-> 200, body |-> "IndexError"]

\* auth_middleware(request, response, done) of api_key_auth(config)
AuthMiddleware(cfg, request) ==
  IF UrlEquals(request, "/") \/ UrlEquals(request, "/health") THEN Done
  ELSE IF ~Truthy(cfg.APIKEY) THEN Done
  ELSE LET auth_key == IF request.authorization # <<>> THEN request.authorization
                       ELSE request.x_api_key
       IN  IF auth_key = <<>> THEN Rejected("APIKEY is missing")
           ELSE IF auth_key[1] = "Bearer"
           THEN IF Len(auth_key) < 2 THEN IndexError
                ELSE IF auth_key[2] # cfg.APIKEY THEN Rejected("Invalid API key")
                ELSE Done
           ELSE IF auth_key[1] # cfg.APIKEY THEN Rejected("Invalid API key")
           ELSE Done

\* auth_adapter(req, reply): it calls auth_middleware(req, reply), which
\* has a third parameter, done, without a default.
AuthAdapter(cfg, request) == TypeError

\* The hooks run() installs: its three add_hook calls are comments.
InstalledHooks == <<>>

\* The middleware add_hook wraps around a hook: a reply when the hook left
\* a status other than 200, call_next otherwise and when the hook raised.
RECURSIVE PreHandlers(_, _, _)
PreHandlers(installed, cfg, request) ==
  IF installed = <<>> THEN [kind |-> "handler", status_code |-> 200, body |-> ""]
  ELSE LET result == IF Head(installed) = "auth_adapter"
                     THEN AuthAdapter(cfg, request) ELSE Done
       IN  IF result.kind = "rejected" THEN result
           ELSE PreHandlers(Tail(installed), cfg, request)

NoRequest == [origin |-> Origin, path |-> "/", authorization |-> <<>>, x_api_key |-> <<>>]
NoAnswer == [kind |-> "none", status_code |-> 0, body |-> ""]

StartIdle ==
  /\ file_config = [HOST |-> None, APIKEY |-> None]
  /\ environ = [HOST |-> None]
  /\ host = None
  /\ service_config = [HOST |-> None]
  /\ bind_host = None
  /\ hooks = <<>>
  /\ au_request = NoRequest
  /\ au_reply = NoAnswer
  /\ st_pc = "idle"

\* The process before run(): a config file and an environment.
StartInit ==
  /\ file_config \in FileConfigs
  /\ environ \in [HOST : Hosts \cup {None}]
  /\ host = None
  /\ service_config = [HOST |-> None]
  /\ bind_host = None
  /\ hooks = <<>>
  /\ au_request = NoRequest
  /\ au_reply = NoAnswer
  /\ st_pc = "init_config"

\* config = await init_config()
InitConfig ==
  /\ st_pc = "init_config"
  /\ environ' = InitConfigEnviron(environ, file_config)
  /\ st_pc' = "host"
  /\ UNCHANGED <<file_config, host, service_config, bind_host, hooks, au_request,
                 au_reply, exceptStart>>

\* run(), from the choice of host to create_server and the hooks
CreateServer ==
  /\ st_pc = "host"
  /\ host' = RunHost(file_config)
  /\ service_config' = LoadConfig(file_config, host', environ)
  /\ hooks' = InstalledHooks
  /\ st_pc' = "start"
  /\ UNCHANGED <<file_config, environ, bind_host, au_request, au_reply, exceptStart>>

\* ServerAdapter.start
Start ==
  /\ st_pc = "start"
  /\ bind_host' = ConfigGet(service_config, Loopback)
  /\ st_pc' = "serving"
  /\ UNCHANGED <<file_config, environ, host, service_config, hooks, au_request,
                 au_reply, exceptStart>>

\* A request arrives and passes the pre-handler hooks.
ServeRequest ==
  /\ st_pc \in {"serving", "served"}
  /\ \E request \in AuthRequests :
        /\ au_request' = request
        /\ au_reply' = PreHandlers(hooks, file_config, request)
  /\ st_pc' = "served"
  /\ UNCHANGED <<file_config, environ, host, service_config, bind_host, hooks,
                 exceptStart>>

NextStart == InitConfig \/ CreateServer \/ Start \/ ServeRequest

(***************************************************************************)
(* Part VIII.  The HTTP routes: register_api_routes, the order in which    *)
(* the application matches them, and the wildcard route catch_all.         *)
(***************************************************************************)
\* A path is the sequence of its pieces, each "/" one piece, so that
\* equality and startswith are those of the strings.
RootPath == <<"/">>
HealthPath == <<"/", "health">>
MessagesPath == <<"/", "v1", "/", "messages">>
ChatCompletionsPath == <<"/", "v1", "/", "chat", "/", "completions">>
GeminiPath == <<"/", "v1beta", "/", "models", "/", ":modelAndAction">>
ProvidersPath == <<"/", "providers">>

\* The transformers that have an end_point.
EndpointTransformers ==
  {[name |-> "Anthropic", end_point |-> MessagesPath],
   [name |-> "OpenAI", end_point |-> ChatCompletionsPath],
   [name |-> "gemini", end_point |-> GeminiPath]}

\* TransformerService.transformers is a dict: its items come in the order
\* of registration, each name once.
TransformerLists ==
  {l \in UNION {[1..n -> EndpointTransformers] : n \in 0..Cardinality(EndpointTransformers)} :
     \A i, j \in 1..Len(l) : i # j => l[i] # l[j]}

RequestPaths ==
  {RootPath, HealthPath, MessagesPath, ChatCompletionsPath, GeminiPath, ProvidersPath,
   MessagesPath \o <<"/", "count_tokens">>,
   <<"/", "v1beta", "/", "models", "/", "gemini-pro:generateContent">>,
   <<"/", "providers", "/", "p">>,
   <<"/", "nope">>}

Methods == {"GET", "POST"}

\* A route: how its path matches, its methods and its handler.
Route(kind, path, methods, handler, transformer) ==
  [kind |-> kind, path |-> path, methods |-> methods, handler |-> handler,
   transformer |-> transformer]

AllMethods == {"GET", "POST", "PUT", "DELETE", "OPTIONS", "HEAD", "PATCH"}

\* The routes added for the transformers, one POST route each.
RECURSIVE EndpointRoutes(_)
EndpointRoutes(items) ==
  IF items = <<>> THEN <<>>
  ELSE <<Route("exact", Head(items).end_point, {"POST"}, "handle_endpoint",
               Head(items).name)>>
       \o EndpointRoutes(Tail(items))

\* register_api_routes: /, /health, the transformers' routes, the wildcard
\* route, then the provider endpoints.
RegisteredRoutes(items) ==
  <<Route("exact", RootPath, {"GET"}, "root", ""),
    Route("exact", HealthPath, {"GET"}, "health", "")>>
  \o EndpointRoutes(items)
  \o <<Route("wildcard", <<"/", "{path:path}">>, AllMethods, "catch_all", ""),
       Route("exact", ProvidersPath, {"POST"}, "create_provider", ""),
       Route("exact", ProvidersPath, {"GET"}, "get_providers", ""),
       Route("parameter", <<"/", "providers", "/", "{id}">>, {"GET"}, "get_provider", ""),
       Route("parameter", <<"/", "providers", "/", "{id}">>, {"PUT"}, "update_provider", ""),
       Route("parameter", <<"/", "providers", "/", "{id}">>, {"DELETE"},
             "delete_provider", "")>>

\* Does the path of a route match a request path.
PathMatches(route, path) ==
  CASE route.kind = "exact" -> route.path = path
    [] route.kind = "wildcard" -> TRUE
    [] route.kind = "parameter" ->
         /\ Len(path) = Len(route.path)
         /\ SubSeq(path, 1, Len(path) - 1) = SubSeq(route.path, 1, Len(path) - 1)
         /\ path[Len(path)] # "/"

\* The application takes the first route, in the order they were added,
\* whose path and method both match.
FullMatches(added, request) ==
  {k \in 1..Len(added) :
     PathMatches(added[k], request.path) /\ request.method \in added[k].methods}

FirstMatch(added, request) ==
  CHOOSE k \in FullMatches(added, request) : \A j \in FullMatches(added, request) : k <= j

\* s.lstrip('/')
RECURSIVE LStrip(_)
LStrip(s) == IF s # <<>> /\ Head(s) = "/" THEN LStrip(Tail(s)) ELSE s

\* s.startswith(prefix)
StartsWith(s, prefix) == Len(prefix) <= Len(s) /\ SubSeq(s, 1, Len(prefix)) = prefix

Handled(handler, transformer) ==
  [handler |-> handler, transformer |-> transformer, status_code |-> 200, code |-> ""]
RouteNotFound ==
  [handler |-> "catch_all", transformer |-> "", status_code |-> 404,
   code |-> "route_not_found"]

\* The loop of catch_all over the transformers with an end_point.
RECURSIVE CatchAll(_, _, _)
CatchAll(items, registered_endpoints, request_path) ==
  IF items = <<>> THEN RouteNotFound
  ELSE LET endpoint == LStrip(Head(items).end_point)
       IN  IF /\ endpoint \notin registered_endpoints
              /\ \/ request_path = endpoint
                 \/ StartsWith(request_path, endpoint \o <<"/">>)
           THEN Handled("process_transformer_request", Head(items).name)
           ELSE CatchAll(Tail(items), registered_endpoints, request_path)

NoDispatch == [handler |-> "none", transformer |-> "", status_code |-> 0, code |-> ""]

DispatchIdle ==
  /\ transformers = <<>>
  /\ app_routes = <<>>
  /\ dp_request = [method |-> "GET", path |-> RootPath]
  /\ dp_reply = NoDispatch
  /\ dp_pc = "idle"

\* The server before start(): the transformers are registered, no route is.
DispatchInit ==
  /\ transformers \in TransformerLists
  /\ app_routes = <<>>
  /\ dp_request = [method |-> "GET", path |-> RootPath]
  /\ dp_reply = NoDispatch
  /\ dp_pc = "register"

\* register_api_routes(app)
RegisterApiRoutes ==
  /\ dp_pc = "register"
  /\ app_routes' = RegisteredRoutes(transformers)
  /\ dp_pc' = "serving"
  /\ UNCHANGED <<transformers, dp_request, dp_reply, exceptDispatch>>

\* One request: the first matching route's handler answers it.
Dispatch ==
  /\ dp_pc \in {"serving", "served"}
  /\ \E request \in [method : Methods, path : RequestPaths] :
        LET route == app_routes[FirstMatch(app_routes, request)]
            registered_endpoints == {LStrip(app_routes[k].path) : k \in 1..Len(app_routes)}
        IN  /\ dp_request' = request
            /\ dp_reply' =
                 IF route.handler = "catch_all"
                 THEN CatchAll(transformers, registered_endpoints, LStrip(request.path))
                 ELSE IF route.handler = "handle_endpoint"
                 THEN Handled("process_transformer_request", route.transformer)
                 ELSE Handled(route.handler, "")
  /\ dp_pc' = "served"
  /\ UNCHANGED <<transformers, app_routes, exceptDispatch>>

NextDispatch == RegisterApiRoutes \/ Dispatch

(***************************************************************************)
(* Part IX.  The stream rewriters: transform_response_out of the deepseek, *)
(* openrouter and tooluse transformers on a streaming response.  The       *)
(* upstream is given line by line (each read holds whole lines); a line is *)
(* a data line with choices[0].delta, or the [DONE] line.  The field       *)
(* `reasoning` stands for delta.reasoning_content (deepseek) or            *)
(* delta.reasoning (openrouter), `tool` for delta.tool_calls[0].           *)
(***************************************************************************)
MaxLines == 3

NoTool == [index |-> -1, name |-> "", arguments |-> ""]
ToolCall(i, name, args) == [index |-> i, name |-> name, arguments |-> args]

\* Fragments of the arguments of a tool call: the two halves of
\* {"response": "hi"}, the whole of it, and white space.
ArgLeft == "{\"response\":"
ArgRight == "\"hi\"}"
ArgWhole == "{\"response\":\"hi\"}"
ArgSpace == " "

DataLine(reasoning, content, tool) ==
  [kind |-> "data", index |-> 0,
   delta |-> [reasoning |-> reasoning, content |-> content, tool |-> tool]]
DoneLine == [kind |-> "done", index |-> 0,
             delta |-> [reasoning |-> "", content |-> "", tool |-> NoTool]]

ReasoningLines ==
  {DataLine(r, c, t) : r \in {"", "r1", "r2"}, c \in {"", "A", "B"},
                       t \in {NoTool, ToolCall(0, "f", ArgWhole)}} \cup {DoneLine}

ToolLines ==
  {DataLine("", c, NoTool) : c \in {"", "A"}}
    \cup {DataLine("", "", ToolCall(i, na[1], na[2])) :
            i \in {0, 1},
            na \in {<<"ExitTool", "">>, <<"ExitTool", ArgWhole>>, <<"", "">>,
                    <<"", ArgLeft>>, <<"", ArgRight>>, <<"", ArgWhole>>,
                    <<"", ArgSpace>>, <<"f", ArgWhole>>}}
    \cup {DoneLine}

RewriterKinds == {"deepseek", "openrouter", "tooluse"}
Reasoners == {"deepseek", "openrouter"}
UpstreamLines(kind) == IF kind = "tooluse" THEN ToolLines ELSE ReasoningLines

\* A line the generator yields.  index -1: the choice has no index.
OutLine(kind, i, content, thinking, signed, tool) ==
  [kind |-> kind, index |-> i, content |-> content, thinking |-> thinking,
   signed |-> signed, tool |-> tool]

\* json.dumps(data) of the line as it came, the reasoning field left out.
Forward(line) ==
  OutLine(line.kind, line.index, line.delta.content, "", FALSE, line.delta.tool)

\* The locals of the generator.  `bound` tells whether the name
\* is_reasoning_complete refers to a variable that has a value: the deepseek
\* generator assigns to it without a nonlocal declaration, so it is a local of
\* the generator that has no value until the assignment.
RewriterInit(kind) ==
  [kind |-> kind, reasoning_content |-> "", bound |-> kind # "deepseek",
   is_reasoning_complete |-> FALSE, has_text_content |-> FALSE,
   exit_tool_index |-> -1, exit_tool_response |-> <<>>, out |-> <<>>,
   raised |-> FALSE]

Yield(R, l) == [R EXCEPT !.out = Append(@, l)]
UnboundLocalError(R) == [R EXCEPT !.raised = TRUE]

DeltaNonEmpty(d) == d.reasoning # "" \/ d.content # "" \/ d.tool # NoTool

ThinkingLine(line) == [Forward(line) EXCEPT !.thinking = line.delta.reasoning]
ClosingLine(line, reasoning) ==
  [Forward(line) EXCEPT !.content = None, !.thinking = reasoning, !.signed = TRUE]

\* One data line in the deepseek generator.
DeepseekLine(R, line) ==
  LET d == line.delta
      closing == d.content # "" /\ R.reasoning_content # ""
  IN  IF d.reasoning # ""
        THEN Yield([R EXCEPT !.reasoning_content = @ \o d.reasoning],
                   ThinkingLine(line))
      ELSE IF closing /\ ~R.bound
        THEN UnboundLocalError(R)
      ELSE LET R1 == IF closing /\ ~R.is_reasoning_complete
                       THEN Yield([R EXCEPT !.is_reasoning_complete = TRUE,
                                            !.bound = TRUE],
                                  ClosingLine(line, R.reasoning_content))
                       ELSE R
           IN  IF ~DeltaNonEmpty(d) THEN R1
               ELSE IF ~R1.bound THEN UnboundLocalError(R1)
               ELSE Yield(R1, [Forward(line) EXCEPT
                                 !.index = IF R1.is_reasoning_complete
                                             THEN @ + 1 ELSE @])

\* process_line of the openrouter generator on one data line.
OpenrouterLine(R, line) ==
  LET d == line.delta
      R0 == [R EXCEPT !.has_text_content = @ \/ d.content # ""]
  IN  IF d.reasoning # ""
        THEN Yield([R0 EXCEPT !.reasoning_content = @ \o d.reasoning],
                   ThinkingLine(line))
      ELSE IF d.content # "" /\ R0.reasoning_content # "" /\ ~R0.is_reasoning_complete
        THEN Yield([R0 EXCEPT !.is_reasoning_complete = TRUE],
                   ClosingLine(line, R0.reasoning_content))
      ELSE Yield(R0, [Forward(line) EXCEPT
                        !.index = IF d.tool # NoTool /\ R0.has_text_content
                                    THEN @ + 1 ELSE @])

\* json.loads of the concatenated fragments: white space between tokens is
\* ignored, and the text must be one whole JSON document.
JsonLoadsFragments(buffer) ==
  LET tokens == SelectSeq(buffer, LAMBDA f : f # ArgSpace)
  IN  IF tokens \in {<<ArgWhole>>, <<ArgLeft, ArgRight>>}
        THEN [ok |-> TRUE, response |-> "hi"]
        ELSE [ok |-> FALSE, response |-> ""]

\* The line tooluse writes in place of the ExitTool call:
\* choices = [{delta: {role: assistant, content: response}}].
ContentLine(resp) == OutLine("data", -1, resp, "", FALSE, NoTool)

\* One data line in process_stream of tooluse.
TooluseLine(R, line) ==
  LET d == line.delta
      tc == d.tool
      send == IF DeltaNonEmpty(d) THEN Yield(R, Forward(line)) ELSE R
  IN  IF tc = NoTool THEN send
      ELSE IF tc.name = "ExitTool"
        THEN [R EXCEPT !.exit_tool_index = tc.index]
      ELSE IF R.exit_tool_index > -1 /\ tc.index = R.exit_tool_index
              /\ tc.arguments # ""
        THEN LET buffer == Append(R.exit_tool_response, tc.arguments)
                 R1 == [R EXCEPT !.exit_tool_response = buffer]
                 parsed == JsonLoadsFragments(buffer)
             IN  IF parsed.ok THEN Yield(R1, ContentLine(parsed.response)) ELSE R1
      ELSE send

\* One upstream line through the generator of the given kind.
RewriteLine(R, line) ==
  IF R.raised THEN R
  ELSE IF line.kind = "done" THEN Yield(R, Forward(line))
  ELSE CASE R.kind = "deepseek" -> DeepseekLine(R, line)
         [] R.kind = "openrouter" -> OpenrouterLine(R, line)
         [] OTHER -> TooluseLine(R, line)

RewriteIdle ==
  /\ rw = RewriterInit("none")
  /\ rw_fed = <<>>
  /\ rw_pc = "idle"

RewriteInit ==
  /\ rw \in {RewriterInit(kind) : kind \in RewriterKinds}
  /\ rw_fed = <<>>
  /\ rw_pc = "streaming"

\* response.aiter_bytes() delivers a line and the generator handles it.
NextLine ==
  /\ rw_pc = "streaming"
  /\ ~rw.raised
  /\ Len(rw_fed) < MaxLines
  /\ \E line \in UpstreamLines(rw.kind) :
       /\ rw' = RewriteLine(rw, line)
       /\ rw_fed' = Append(rw_fed, line)
  /\ UNCHANGED <<rw_pc, exceptRewrite>>

\* The exception leaves the generator: the stream to the client breaks.
GeneratorRaises ==
  /\ rw_pc = "streaming"
  /\ rw.raised
  /\ rw_pc' = "closed"
  /\ UNCHANGED <<rw, rw_fed, exceptRewrite>>

\* The upstream ends; no partial line is left to handle.
EndOfUpstream ==
  /\ rw_pc = "streaming"
  /\ ~rw.raised
  /\ rw_pc' = "closed"
  /\ UNCHANGED <<rw, rw_fed, exceptRewrite>>

NextRewrite == NextLine \/ GeneratorRaises \/ EndOfUpstream

(***************************************************************************)
(* Part X.  Hooks on a whole request or response: tooluse's                *)
(* transform_response_out on a JSON response, maxtoken's                   *)
(* transform_request_in, and the chain of the Anthropic and OpenAI         *)
(* transformers around an upstream that echoes.                            *)
(***************************************************************************)
MaxTokens == 4

HkReturned(v) == [raised |-> FALSE, error |-> "", value |-> v]
HkRaised(error, where) == [raised |-> TRUE, error |-> error, value |-> where]
NoResult == [raised |-> FALSE, error |-> "", value |-> "none"]

\* `await response.json()`: json() of an httpx.Response is a plain method that
\* returns the parsed body, and awaiting that value raises TypeError.
AwaitResponseJson(resp) ==
  IF resp.json_awaitable THEN HkReturned(resp.json)
  ELSE HkRaised("TypeError", "await response.json()")

\* log.error(...): log is a function (utils/log.py), it has no attribute error.
LogError(where) == HkRaised("AttributeError", where)

\* The body of choices[0].message of a JSON response.
Message(content, tcs) == [content |-> content, tool_calls |-> tcs]

JsonResponses ==
  [json_awaitable : {FALSE},
   json : {Message(c, tcs) :
             c \in {None, "text"},
             tcs \in {<<>>, <<ToolCall(0, "ExitTool", ArgWhole)>>,
                      <<ToolCall(0, "ExitTool", ArgLeft)>>,
                      <<ToolCall(0, "f", ArgWhole)>>,
                      <<ToolCall(0, "f", ArgWhole), ToolCall(1, "ExitTool", ArgWhole)>>}}]

\* The ExitTool branch of the JSON case.
ExitToolRewrite(message) ==
  IF message.tool_calls # <<>> /\ message.tool_calls[1].name = "ExitTool"
  THEN LET parsed == JsonLoadsFragments(<<message.tool_calls[1].arguments>>)
       IN  IF parsed.ok THEN HkReturned(Message(parsed.response, <<>>))
           ELSE LogError("except json.JSONDecodeError")
  ELSE HkReturned(message)

\* TooluseTransformer.transform_response_out, "application/json" case.
TooluseResponseOut(resp) ==
  LET json == AwaitResponseJson(resp)
  IN  IF json.raised THEN LogError("except Exception")
      ELSE LET rewritten == ExitToolRewrite(json.value)
           IN  IF rewritten.raised THEN LogError("except Exception") ELSE rewritten

\* A request as maxtoken sees it: its Python type and its max_tokens,
\* <<>> for None.
TokenRequests ==
  [type : {"UnifiedChatRequest", "dict"},
   max_tokens : {<<>>} \cup {<<n>> : n \in 0..MaxTokens}]

\* options["max_tokens"] of the transformers configured.
TokenLimits == {<<n>> : n \in 1..(MaxTokens - 1)}

Falsy(v) == v = <<>> \/ v = <<0>>

\* A mutation: the limit replaces every max_tokens.
MaxTokenRequestInAlways(limit, request) == [type |-> "dict", max_tokens |-> limit]

\* MaxTokenTransformer.transform_request_in on a transformer whose
\* self.max_tokens is `limit`: the result is request.__dict__ or the dict.
MaxTokenRequestIn(limit, request) ==
  [type |-> "dict",
   max_tokens |-> IF ~Falsy(request.max_tokens) /\ ~Falsy(limit)
                     /\ request.max_tokens[1] > limit[1]
                  THEN limit ELSE request.max_tokens]

\* Anthropic requests whose messages are user text messages.
UserTextBodies ==
  {b \in Bodies : /\ b.system = "absent" /\ b.tools = <<>>
                  /\ b.messages # <<>>
                  /\ \A k \in DOMAIN b.messages :
                       b.messages[k] = [role |-> "user", content |-> "str"]}

EchoTexts == {"hello", "bye", "ok"}
FinishReasons == {"stop", "length", "content_filter"}

\* OpenAITransformer.transform_request_in: it starts with
\* log(..., json.dumps(request, indent=2)), and json.dumps raises TypeError
\* for a UnifiedChatRequest object.
OpenAITransformRequestIn(request) ==
  IF request.type # "dict" THEN HkRaised("TypeError", "openai.request_in")
  ELSE HkReturned([request EXCEPT
         !.messages = SelectSeq(@, LAMBDA m : m.role \in {"user", "assistant", "system"})])

\* The upstream's JSON answer that echoes `text`.
EchoResponse(text, finish_reason) ==
  [id |-> "chatcmpl", model |-> "m",
   choices |-> <<[message |-> [content |-> text, tool_calls |-> <<>>],
                  finish_reason |-> finish_reason]>>,
   usage |-> [prompt_tokens |-> 1, completion_tokens |-> 1]]

\* AnthropicTransformer.transform_response_in, non-streaming case.
AnthropicTransformResponseIn(resp) ==
  LET data == AwaitResponseJson(resp)
  IN  IF data.raised THEN HkRaised("TypeError", "anthropic.response_in")
      ELSE HkReturned(ConvertOpenAIResponseToAnthropic(data.value))

\* anthropic.request_out, openai.request_in, the echoing upstream,
\* openai.response_out (which returns its argument), anthropic.response_in.
RoundTrip(b, text, finish_reason) ==
  LET unified == AnthropicTransformRequestOut(b)
      posted == OpenAITransformRequestIn(unified)
  IN  IF posted.raised THEN posted
      ELSE AnthropicTransformResponseIn(
             [json_awaitable |-> FALSE, json |-> EchoResponse(text, finish_reason)])

HookInputs ==
  {[hook |-> "tooluse.response_out", response |-> r] : r \in JsonResponses}
    \cup {[hook |-> "maxtoken.request_in", limit |-> n, request |-> r] :
            n \in TokenLimits, r \in TokenRequests}
    \cup {[hook |-> "round_trip", body |-> b, text |-> t, finish_reason |-> f] :
            b \in UserTextBodies, t \in EchoTexts, f \in FinishReasons}

HookIdle ==
  /\ hk_call = [hook |-> "none"]
  /\ hk_result = NoResult
  /\ hk_pc = "idle"

HookInit ==
  /\ hk_call \in HookInputs
  /\ hk_result = NoResult
  /\ hk_pc = "call"

CallTooluseResponseOut ==
  /\ hk_pc = "call"
  /\ hk_call.hook = "tooluse.response_out"
  /\ hk_result' = TooluseResponseOut(hk_call.response)
  /\ hk_pc' = "done"
  /\ UNCHANGED <<hk_call, exceptHook>>

\* The hook applied once, and applied again to its own result.
CallMaxTokenRequestIn ==
  /\ hk_pc = "call"
  /\ hk_call.hook = "maxtoken.request_in"
  /\ LET once == MaxTokenRequestIn(hk_call.limit, hk_call.request)
     IN  hk_result' = HkReturned([once |-> once,
                                  twice |-> MaxTokenRequestIn(hk_call.limit, once)])
  /\ hk_pc' = "done"
  /\ UNCHANGED <<hk_call, exceptHook>>

CallRoundTrip ==
  /\ hk_pc = "call"
  /\ hk_call.hook = "round_trip"
  /\ hk_result' = RoundTrip(hk_call.body, hk_call.text, hk_call.finish_reason)
  /\ hk_pc' = "done"
  /\ UNCHANGED <<hk_call, exceptHook>>

NextHook == CallTooluseResponseOut \/ CallMaxTokenRequestIn \/ CallRoundTrip

(***************************************************************************)
(* Part XI.  Two streamed requests in flight at once.  Each call of        *)
(* _process_stream, and each generator a transform_response_out returns,   *)
(* has its own locals; the steps of the two requests interleave at every   *)
(* upstream read.                                                          *)
(***************************************************************************)
MaxConcurrent == 2

Requests == {"req1", "req2"}

ConcurrentKinds == {"anthropic"} \cup RewriterKinds

\* What the upstream of a request may deliver next.
ConcurrentInputs(kind) ==
  CASE kind = "anthropic" ->
         {WholeRead(n) : n \in {"text", "tool0", "args0", "fin_stop"}}
    [] kind = "tooluse" ->
         {DataLine("", "A", NoTool), DataLine("", "", ToolCall(0, "ExitTool", "")),
          DataLine("", "", ToolCall(0, "", ArgWhole))}
    [] OTHER ->
         {DataLine("r1", "", NoTool), DataLine("", "A", NoTool), DoneLine}

\* The locals a call starts with.
NewFrame(kind) ==
  [kind |-> kind,
   locals |-> IF kind = "anthropic" THEN ConvInit ELSE RewriterInit(kind)]

\* The loop has ended: `if has_finished: break`, or the generator raised.
Ended(frame) ==
  IF frame.kind = "anthropic" THEN frame.locals.has_finished ELSE frame.locals.raised

\* One upstream read handled in a frame.
FrameStep(frame, input) ==
  [frame EXCEPT !.locals = IF frame.kind = "anthropic" THEN ProcessRead(@, input)
                           ELSE RewriteLine(@, input)]

RECURSIVE RewriteLines(_, _)
RewriteLines(R, lines) ==
  IF lines = <<>> THEN R ELSE RewriteLines(RewriteLine(R, Head(lines)), Tail(lines))

\* What a request's client receives when the request runs alone.
Alone(kind, inputs) ==
  IF kind = "anthropic" THEN ConvertReads(ConvInit, inputs).out
  ELSE RewriteLines(RewriterInit(kind), inputs).out

\* A mutation: every request works on the locals of the first.
SharedFrame(r) == "req1"

\* The locals a request's stream works on: those of its own call.
FrameOf(r) == r

ConcurrentIdle ==
  /\ cc_frames = [r \in Requests |-> NewFrame("none")]
  /\ cc_fed = [r \in Requests |-> <<>>]

ConcurrentInit ==
  /\ \E kind \in ConcurrentKinds : cc_frames = [r \in Requests |-> NewFrame(kind)]
  /\ cc_fed = [r \in Requests |-> <<>>]

\* The upstream of request r delivers a read and r's task handles it.
StreamStep(r) ==
  /\ Len(cc_fed[r]) < MaxConcurrent
  /\ ~Ended(cc_frames[FrameOf(r)])
  /\ \E input \in ConcurrentInputs(cc_frames[r].kind) :
       /\ cc_frames' = [cc_frames EXCEPT ![FrameOf(r)] = FrameStep(@, input)]
       /\ cc_fed' = [cc_fed EXCEPT ![r] = Append(@, input)]
  /\ UNCHANGED exceptConcurrent

NextConcurrent == \E r \in Requests : StreamStep(r)

(***************************************************************************)
(* Part XII.  The `code` command: execute_code_command, the reference      *)
(* count file and close_service.  Each session is a process of its own;    *)
(* reading the count file and writing it are two steps, and the steps of   *)
(* the sessions interleave.                                                *)
(***************************************************************************)
MaxSessions == 2

Sessions == 1..MaxSessions

Max(a, b) == IF a >= b THEN a ELSE b

\* The sessions that have counted themselves and whose client has not ended.
RunningSessions == {s \in Sessions : ss_pc[s] \in {"launch", "running"}}

SessionIdle ==
  /\ count_file = 0
  /\ service_running = FALSE
  /\ ss_pc = [s \in Sessions |-> "idle"]
  /\ ss_count = [s \in Sessions |-> 0]
  /\ ss_fails = [s \in Sessions |-> FALSE]

\* The gateway runs, no session has started, the count file is absent or 0.
SessionInit ==
  /\ count_file = 0
  /\ service_running = TRUE
  /\ ss_pc = [s \in Sessions |-> "inc_read"]
  /\ ss_count = [s \in Sessions |-> 0]
  /\ ss_fails \in [Sessions -> BOOLEAN]

\* increment_reference_count: count = int(REFERENCE_COUNT_FILE.read_text())
IncrementRead(s) ==
  /\ ss_pc[s] = "inc_read"
  /\ ss_count' = [ss_count EXCEPT ![s] = count_file]
  /\ ss_pc' = [ss_pc EXCEPT ![s] = "inc_write"]
  /\ UNCHANGED <<count_file, service_running, ss_fails, exceptSession>>

\* increment_reference_count: count += 1; write_text(str(count))
IncrementWrite(s) ==
  /\ ss_pc[s] = "inc_write"
  /\ count_file' = ss_count[s] + 1
  /\ ss_pc' = [ss_pc EXCEPT ![s] = "launch"]
  /\ UNCHANGED <<service_running, ss_count, ss_fails, exceptSession>>

\* subprocess.Popen: the client starts, or the call raises and an except
\* clause runs.
Launch(s) ==
  /\ ss_pc[s] = "launch"
  /\ ss_pc' = [ss_pc EXCEPT ![s] = IF ss_fails[s] THEN "except_read" ELSE "running"]
  /\ UNCHANGED <<count_file, service_running, ss_count, ss_fails, exceptSession>>

\* process.wait() returns: the finally clause runs.
ClientEnds(s) ==
  /\ ss_pc[s] = "running"
  /\ ss_pc' = [ss_pc EXCEPT ![s] = "finally_read"]
  /\ UNCHANGED <<count_file, service_running, ss_count, ss_fails, exceptSession>>

\* decrement_reference_count, called in the except clause and in finally.
DecrementRead(s) ==
  /\ ss_pc[s] \in {"except_read", "finally_read"}
  /\ ss_count' = [ss_count EXCEPT ![s] = count_file]
  /\ ss_pc' = [ss_pc EXCEPT ![s] = IF @ = "except_read" THEN "except_write"
                                   ELSE "finally_write"]
  /\ UNCHANGED <<count_file, service_running, ss_fails, exceptSession>>

\* count = max(0, count - 1); write_text(str(count)).  After the except
\* clause's sys.exit(1) the finally clause runs.
DecrementWrite(s) ==
  /\ ss_pc[s] \in {"except_write", "finally_write"}
  /\ count_file' = Max(0, ss_count[s] - 1)
  /\ ss_pc' = [ss_pc EXCEPT ![s] = IF @ = "except_write" THEN "finally_read"
                                   ELSE "close"]
  /\ UNCHANGED <<service_running, ss_count, ss_fails, exceptSession>>

\* close_service: the gateway is sent SIGTERM when the count read is 0.
CloseService(s) ==
  /\ ss_pc[s] = "close"
  /\ service_running' = (service_running /\ count_file > 0)
  /\ ss_pc' = [ss_pc EXCEPT ![s] = "exited"]
  /\ UNCHANGED <<count_file, ss_count, ss_fails, exceptSession>>

NextSession ==
  \E s \in Sessions :
    \/ IncrementRead(s) \/ IncrementWrite(s) \/ Launch(s) \/ ClientEnds(s)
    \/ DecrementRead(s) \/ DecrementWrite(s) \/ CloseService(s)

(***************************************************************************)
(* The specifications.                                                     *)
(***************************************************************************)
Init ==
  /\ StreamInit /\ PipeIdle /\ RequestIdle /\ FilterIdle /\ RouterIdle
  /\ RegistryIdle /\ StartIdle /\ DispatchIdle
  /\ RewriteIdle /\ HookIdle /\ ConcurrentIdle /\ SessionIdle

Next == ReadChunk \/ BreakAfterFinish \/ EndOfStream

Spec == Init /\ [][Next]_vars

InitPipeline ==
  /\ StreamInit /\ PipeInit /\ RequestIdle /\ FilterIdle /\ RouterIdle
  /\ RegistryIdle /\ StartIdle /\ DispatchIdle
  /\ RewriteIdle /\ HookIdle /\ ConcurrentIdle /\ SessionIdle

NextPipeline ==
  \/ GetProvider
  \/ TransformRequestOut
  \/ ProviderRequestIn
  \/ ModelRequestIn
  \/ SendUnifiedRequest
  \/ HandleResponse

SpecPipeline == InitPipeline /\ [][NextPipeline]_vars

InitRequest ==
  /\ StreamInit /\ PipeIdle /\ RequestInit /\ FilterIdle /\ RouterIdle
  /\ RegistryIdle /\ StartIdle /\ DispatchIdle
  /\ RewriteIdle /\ HookIdle /\ ConcurrentIdle /\ SessionIdle

SpecRequest == InitRequest /\ [][NextRequest]_vars

InitFilter ==
  /\ StreamInit /\ PipeIdle /\ RequestIdle /\ FilterInit /\ RouterIdle
  /\ RegistryIdle /\ StartIdle /\ DispatchIdle
  /\ RewriteIdle /\ HookIdle /\ ConcurrentIdle /\ SessionIdle

SpecFilter == InitFilter /\ [][NextFilter]_vars

InitRouter ==
  /\ StreamInit /\ PipeIdle /\ RequestIdle /\ FilterIdle /\ RouterInit
  /\ RegistryIdle /\ StartIdle /\ DispatchIdle
  /\ RewriteIdle /\ HookIdle /\ ConcurrentIdle /\ SessionIdle

SpecRouter == InitRouter /\ [][NextRouter]_vars

InitRouterCalls ==
  /\ StreamInit /\ PipeIdle /\ RequestIdle /\ FilterIdle /\ RouterCallsInit
  /\ RegistryIdle /\ StartIdle /\ DispatchIdle
  /\ RewriteIdle /\ HookIdle /\ ConcurrentIdle /\ SessionIdle

SpecRouterCalls == InitRouterCalls /\ [][NextRouterCalls]_vars

InitRegistry ==
  /\ StreamInit /\ PipeIdle /\ RequestIdle /\ FilterIdle /\ RouterIdle
  /\ RegistryInit /\ StartIdle /\ DispatchIdle
  /\ RewriteIdle /\ HookIdle /\ ConcurrentIdle /\ SessionIdle

SpecRegistry == InitRegistry /\ [][NextRegistry]_vars

InitStart ==
  /\ StreamInit /\ PipeIdle /\ RequestIdle /\ FilterIdle /\ RouterIdle
  /\ RegistryIdle /\ StartInit /\ DispatchIdle
  /\ RewriteIdle /\ HookIdle /\ ConcurrentIdle /\ SessionIdle

SpecStart == InitStart /\ [][NextStart]_vars

InitDispatch ==
  /\ StreamInit /\ PipeIdle /\ RequestIdle /\ FilterIdle /\ RouterIdle
  /\ RegistryIdle /\ StartIdle /\ DispatchInit
  /\ RewriteIdle /\ HookIdle /\ ConcurrentIdle /\ SessionIdle

SpecDispatch == InitDispatch /\ [][NextDispatch]_vars

InitRewrite ==
  /\ StreamInit /\ PipeIdle /\ RequestIdle /\ FilterIdle /\ RouterIdle
  /\ RegistryIdle /\ StartIdle /\ DispatchIdle
  /\ RewriteInit /\ HookIdle /\ ConcurrentIdle /\ SessionIdle

SpecRewrite == InitRewrite /\ [][NextRewrite]_vars

InitHook ==
  /\ StreamInit /\ PipeIdle /\ RequestIdle /\ FilterIdle /\ RouterIdle
  /\ RegistryIdle /\ StartIdle /\ DispatchIdle
  /\ RewriteIdle /\ HookInit /\ ConcurrentIdle /\ SessionIdle

SpecHook == InitHook /\ [][NextHook]_vars

InitConcurrent ==
  /\ StreamInit /\ PipeIdle /\ RequestIdle /\ FilterIdle /\ RouterIdle
  /\ RegistryIdle /\ StartIdle /\ DispatchIdle
  /\ RewriteIdle /\ HookIdle /\ ConcurrentInit /\ SessionIdle

SpecConcurrent == InitConcurrent /\ [][NextConcurrent]_vars

InitSession ==
  /\ StreamInit /\ PipeIdle /\ RequestIdle /\ FilterIdle /\ RouterIdle
  /\ RegistryIdle /\ StartIdle /\ DispatchIdle
  /\ RewriteIdle /\ HookIdle /\ ConcurrentIdle /\ SessionInit

SpecSession == InitSession /\ [][NextSession]_vars

(***************************************************************************)
(* Reading the output and the input of a run.                              *)
(***************************************************************************)
CountType(o, type) == Cardinality({p \in 1..Len(o) : o[p].type = type})

PositionsOf(o, type) == {p \in 1..Len(o) : o[p].type = type}

\* The tool-call deltas of the chunks the converter parsed, in arrival order.
RECURSIVE ToolDeltasOf(_)
ToolDeltasOf(h) ==
  IF h = <<>> THEN <<>>
  ELSE (IF Head(h).error = "" /\ Head(h).has_choice THEN Head(h).tool_calls ELSE <<>>)
         \o ToolDeltasOf(Tail(h))

\* The tool indices of a sequence of deltas, each once, in order of first mention.
RECURSIVE FirstMentions(_, _)
FirstMentions(ds, seen) ==
  IF ds = <<>> THEN <<>>
  ELSE IF Head(ds).index \in seen THEN FirstMentions(Tail(ds), seen)
  ELSE <<Head(ds).index>> \o FirstMentions(Tail(ds), seen \cup {Head(ds).index})

\* The deltas of tool index i, in arrival order.
RECURSIVE DeltasOfTool(_, _)
DeltasOfTool(ds, i) ==
  IF ds = <<>> THEN <<>>
  ELSE (IF Head(ds).index = i THEN <<Head(ds)>> ELSE <<>>) \o DeltasOfTool(Tail(ds), i)

\* The concatenation of the function.arguments fragments of a sequence of deltas.
RECURSIVE ConcatArguments(_)
ConcatArguments(ds) ==
  IF ds = <<>> THEN "" ELSE Head(ds).arguments \o ConcatArguments(Tail(ds))

\* The tool_use block starts of an output, in emission order.
RECURSIVE ToolStarts(_)
ToolStarts(o) ==
  IF o = <<>> THEN <<>>
  ELSE (IF Head(o).type = "content_block_start" /\ Head(o).kind = "tool_use"
        THEN <<Head(o)>> ELSE <<>>) \o ToolStarts(Tail(o))

\* The concatenation of the partial_json payloads of the input_json_delta
\* events of block index b, in emission order.
RECURSIVE ConcatPartialJson(_, _)
ConcatPartialJson(o, b) ==
  IF o = <<>> THEN ""
  ELSE (IF Head(o).kind = "input_json_delta" /\ Head(o).index = b THEN Head(o).a ELSE "")
         \o ConcatPartialJson(Tail(o), b)

\* No read of the sequence ends or begins inside a JSON text.
NoSplitRead(reads) ==
  \A k \in 1..Len(reads) : \A j \in 1..Len(reads[k]) : reads[k][j].part \notin {"left", "right"}

\* A chunk with a finish_reason went through the converter.
FinishHandled == \E k \in 1..Len(handled) : handled[k].error = "" /\ handled[k].has_choice
                                              /\ handled[k].finish_reason # ""

(***************************************************************************)
(* C1.  Exactly one message_start and one message_stop.                    *)
(***************************************************************************)
\* C1: when the converter has ended and has converted at least one chunk of
\* a stream of complete lines, its output holds exactly one message_start
\* and exactly one message_stop, the message_start first, whether or not a
\* finish_reason arrived.
C1_OneStartOneStop ==
  (pc = "closed" /\ has_started /\ NoSplitRead(fed)) =>
     /\ CountType(out, "message_start") = 1
     /\ CountType(out, "message_stop") = 1
     /\ \A p \in PositionsOf(out, "message_start") :
          \A q \in PositionsOf(out, "message_stop") : p < q

(***************************************************************************)
(* C2.  Content blocks are well nested.                                    *)
(***************************************************************************)
\* Scan of an output: `open` is the index of the open block, -1 when none.
RECURSIVE NestedFrom(_, _, _)
NestedFrom(o, k, open) ==
  IF k > Len(o) THEN TRUE
  ELSE CASE o[k].type = "content_block_start" ->
              open = -1 /\ NestedFrom(o, k + 1, o[k].index)
         [] o[k].type = "content_block_stop" ->
              (open = -1 \/ o[k].index = open) /\ NestedFrom(o, k + 1, -1)
         [] o[k].type = "message_stop" ->
              open = -1 /\ NestedFrom(o, k + 1, open)
         [] OTHER -> NestedFrom(o, k + 1, open)

HasIdAndName(d) == d.id # "" /\ d.name # ""

RECURSIVE Flatten(_)
Flatten(reads) == IF reads = <<>> THEN <<>> ELSE Head(reads) \o Flatten(Tail(reads))

\* The text is a sequence of complete lines, each empty, "data: [DONE]" or
\* "data: " followed by the JSON text of one chunk.
WellFormedStream(text) ==
  LET lines == SplitLines(text)
  IN /\ lines[Len(lines)] = <<>>
     /\ \A k \in 1..Len(lines) :
          \/ lines[k] = <<>>
          \/ /\ StartsWithData(lines[k])
             /\ DataOf(lines[k]) = <<TokDone>> \/ JsonParses(DataOf(lines[k]))

IsErrorChunk(c) == c.error # ""
IsNoErrorChunk(c) == c.error = ""
IsErrorEvent(e) == e.type = "error"
IsNoErrorEvent(e) == e.type # "error"

RECURSIVE ApplyChunks(_, _)
ApplyChunks(S, cs) ==
  IF cs = <<>> THEN S ELSE ApplyChunks(ProcessChunk(S, Head(cs)), Tail(cs))

RECURSIVE ErrorEventsOf(_)
ErrorEventsOf(cs) ==
  IF cs = <<>> THEN <<>> ELSE <<EvError(Head(cs).error)>> \o ErrorEventsOf(Tail(cs))

SignatureClosed(o, ci) ==
  \A p \in 1..Len(o) :
    o[p].kind = "signature_delta" =>
      /\ p < Len(o)
      /\ o[p + 1] = EvBlockStop(o[p].index)
      /\ ci > o[p].index
      /\ \A q \in (p + 1)..Len(o) :
           o[q].type = "content_block_start" => o[q].index > o[p].index

ExpectedStopReason(finish_reason) ==
  IF finish_reason = "stop" THEN "end_turn"
  ELSE IF finish_reason = "length" THEN "max_tokens"
  ELSE IF finish_reason = "tool_calls" THEN "tool_use"
  ELSE IF finish_reason = "content_filter" THEN "stop_sequence"
  ELSE "end_turn"

\* The non-streaming response with the content and finish_reason of a chunk.
ResponseOf(c) ==
  [id |-> "r1", model |-> c.model,
   choices |-> <<[message |-> [content |-> c.content, tool_calls |-> <<>>],
                  finish_reason |-> c.finish_reason]>>,
   usage |-> c.usage]

RECURSIVE HookCalls(_, _)
HookCalls(hook, ts) ==
  IF ts = <<>> THEN <<>>
  ELSE (IF HasHooks(Head(ts)) THEN <<Call(hook, Head(ts))>> ELSE <<>>)
         \o HookCalls(hook, Tail(ts))

\* The order the claim states.
ExpectedCalls ==
  <<Call("transform_request_out", EndpointTransformer)>>
    \o HookCalls("transform_request_in", use)
    \o HookCalls("transform_request_in", model_use)
    \o <<Call("upstream", "provider")>>
    \o HookCalls("transform_response_out", use)
    \o HookCalls("transform_response_out", model_use)
    \o <<Call("transform_response_in", EndpointTransformer)>>

\* C10: when the handler has ended for a non-streaming request whose hooks
\* raised nothing and whose upstream call returned status 200, the calls it
\* made are, in order: transform_request_out of the endpoint transformer,
\* transform_request_in of the provider list, of the per-model list, one
\* upstream call, transform_response_out of the provider list, of the
\* per-model list, and transform_response_in of the endpoint transformer.
C10_HookOrder ==
  (pl_pc = "done" /\ raising = "none" /\ response.kind = "response"
     /\ response.status_code = 200) => calls = ExpectedCalls

(***************************************************************************)
(* C11.  A streaming request answered 200 is streamed to the client.       *)
(***************************************************************************)
\* The calls of one hook name made by the handler.
CallsOfHook(hook) == SelectSeq(calls, LAMBDA c : c.hook = hook)

\* C11: when the handler has ended for a request with stream = true whose
\* hooks raised nothing and whose upstream call was answered with status
\* 200, the reply is not an error reply: it has status 200, and the
\* endpoint transform_response_in was run.
C11_StreamingReply ==
  (pl_pc = "done" /\ raising = "none" /\ is_stream /\ response # NoResponse
     /\ response.status_code = 200) =>
        /\ reply.code = ""
        /\ reply.status_code = 200
        /\ CallsOfHook("transform_response_in") # <<>>

(***************************************************************************)
(* C12.  A non-2xx upstream status reaches the client.                     *)
(***************************************************************************)
\* C12: when the handler has ended after an upstream answer of a status s
\* outside 200..299, the reply has status s and no transform_response_out
\* and no transform_response_in hook was invoked.
C12_UpstreamStatusKept ==
  (pl_pc = "done" /\ response # NoResponse /\ response.status_code \notin 200..299) =>
        /\ reply.status_code = response.status_code
        /\ CallsOfHook("transform_response_out") = <<>>
        /\ CallsOfHook("transform_response_in") = <<>>

(***************************************************************************)
(* C13.  An unknown provider is answered 404 provider_not_found.           *)
(***************************************************************************)
\* C13: when the handler has ended for a request whose provider is not in
\* the registry, no upstream call was made and the reply is 404 with error
\* code provider_not_found.
C13_ProviderNotFound ==
  (pl_pc = "done" /\ ~provider_found) =>
        /\ CallsOfHook("upstream") = <<>>
        /\ reply.status_code = 404
        /\ reply.code = "provider_not_found"

(***************************************************************************)
(* C14.  A raising transform_response_out hook is skipped.                 *)
(***************************************************************************)
\* C14: when the handler has ended for a non-streaming request answered 200
\* by the upstream, one of whose transform_response_out hooks raises, the
\* request is not failed: the reply is not an error reply, every
\* transform_response_out hook of the provider list and of the per-model
\* list was invoked, and then the endpoint transform_response_in.
C14_ResponseHookSkipped ==
  (pl_pc = "done" /\ raising = "transform_response_out" /\ response.kind = "response"
     /\ response.status_code = 200
     /\ HookCalls("transform_response_out", use \o model_use) # <<>>) =>
        /\ reply.code = ""
        /\ CallsOfHook("transform_response_out")
              = HookCalls("transform_response_out", use \o model_use)
        /\ CallsOfHook("transform_response_in")
              = <<Call("transform_response_in", EndpointTransformer)>>

(***************************************************************************)
(* C15.  A raising chain hook never fails the request.                     *)
(***************************************************************************)
\* C15: when the handler has ended for a request one of whose provider-list
\* or per-model-list hooks raised, the reply is not an error reply caused
\* by that hook, and the hooks after it in the chains were still invoked:
\* every transform_request_in of both lists was called and the upstream
\* call was made.
C15_HookErrorsSwallowed ==
  (pl_pc = "done" /\ raising \in {"provider_request_in", "model_request_in"}) =>
        /\ reply.cause # "transform_request_in"
        /\ CallsOfHook("transform_request_in")
              = HookCalls("transform_request_in", use \o model_use)
        /\ CallsOfHook("upstream") # <<>>

(***************************************************************************)
(* C16.  The Authorization header of an upstream request.                  *)
(***************************************************************************)
\* C16: every request posted to a provider whose api_key is not empty has
\* an Authorization header whose value is "Bearer " followed by the
\* api_key, whatever the hooks of the two lists returned.
C16_AuthorizationSent ==
  (sent.posted /\ api_key # "") =>
     /\ "Authorization" \in DOMAIN sent.headers
     /\ sent.headers["Authorization"] = "Bearer " \o api_key

\* A request was posted for a provider with a key after GeminiTransformer,
\* whose result carries a config with "Authorization": None, had run.
C16_Witness ==
  /\ sent.posted
  /\ api_key # ""
  /\ sent.keys = {"body", "config"}
  /\ request_body.config_item["headers"]["Authorization"] = "None"

(***************************************************************************)
(* C17.  The client's body is not mutated.                                 *)
(***************************************************************************)
\* C17: no step of the request half of the pipeline changes the client's
\* body: after transform_request_out and every transform_request_in the
\* body equals what it was on entry.
C17_ClientBodyUntouched == [][body' = body]_vars

(***************************************************************************)
(* C18.  A system message only at index 0.                                 *)
(***************************************************************************)
\* C18: in every unified request posted to a provider, no message after
\* the first has role system.
C18_SystemOnlyFirst ==
  (sent.posted /\ "messages" \in sent.keys) =>
     \A k \in 2..Len(sent.roles) : sent.roles[k] # "system"

(***************************************************************************)
(* C19.  The provider-selection filter.                                    *)
(***************************************************************************)
\* The position of the first comma of a string that has one.
FirstComma(s) == CHOOSE k \in 1..Len(s) : s[k] = "," /\ \A j \in 1..(k - 1) : s[j] # ","

\* C19: when the filter hands on a POST whose body has a model string: if
\* the model has a comma, the request's provider is the text before the
\* first comma and the body's model is the text after it; if it has none,
\* the body is unchanged and no provider is set.
C19_ProviderSelection ==
  (mw_pc = "call_next" /\ method = "POST" /\ raw_body.kind = "model") =>
     IF HasComma(raw_body.model)
     THEN /\ state_provider = Provider(SubSeq(raw_body.model, 1, FirstComma(raw_body.model) - 1))
          /\ fwd_model = SubSeq(raw_body.model, FirstComma(raw_body.model) + 1,
                                Len(raw_body.model))
     ELSE /\ state_provider = NoProvider
          /\ fwd_model = raw_body.model

(***************************************************************************)
(* C20.  The router's rules, first match first.                            *)
(***************************************************************************)
\* C20: the model get_use_model returns is: the request's model when it
\* has a comma; else longContext when the token count is above 60000 and
\* longContext is set; else background when the model starts with
\* claude-3-5-haiku and background is set; else think when the request has
\* a thinking field and think is set; else default.  At a count of exactly
\* 60000 longContext is not selected by the second rule.
C20_RouterRules ==
  rt_pc = "returned" =>
     LET m == rt_request.model
         r1 == HasComma(m)
         r2 == token_count > 60000 /\ router_config.longContext # Unset
         r3 == StartsWithHaiku(m) /\ router_config.background # Unset
         r4 == rt_request.thinking /\ router_config.think # Unset
     IN  /\ r1 => use_model = m
         /\ (~r1 /\ r2) => use_model = router_config.longContext
         /\ (~r1 /\ ~r2 /\ r3) => use_model = router_config.background
         /\ (~r1 /\ ~r2 /\ ~r3 /\ r4) => use_model = router_config.think
         /\ (~r1 /\ ~r2 /\ ~r3 /\ ~r4) => use_model = router_config.default
         /\ (~r1 /\ token_count = 60000) => use_model # <<"lc">>

\* The router returned for a request of exactly 60000 tokens with
\* longContext set, and for it the background rule decided.
C20_Witness ==
  /\ rt_pc = "returned"
  /\ token_count = 60000
  /\ router_config.longContext # Unset
  /\ ~HasComma(rt_request.model)
  /\ use_model = <<"bg">>

(***************************************************************************)
(* C21.  The router and the request body.                                  *)
(***************************************************************************)
\* C21: when the router has run on a request, the request body is the body
\* before routing with model replaced by the string the rules chose, and
\* nothing else changed.
C21_ModelReplaced ==
  [][rt_pc' = "done" => rt_request' = [rt_request EXCEPT !.model = use_model']]_vars

C23_ListedModelsResolve ==
  \A name \in DOMAIN providers : \A m \in Elements(providers[name].models) :
     /\ ResolveModelRoute(CurrentRegistry, FullModel(name, m))
          = [found |-> TRUE, provider |-> name, target_model |-> m]
     /\ LET info == ResolveModelRoute(CurrentRegistry, m)
        IN  info.found /\ m \in Elements(providers[info.provider].models)

(***************************************************************************)
(* C24.  An update of models rewrites the provider's routes.               *)
(***************************************************************************)
\* C24: after a successful update of a provider with models M2, the route
\* table has the route name + "," + m exactly for the m in M2: the routes
\* of the models dropped are gone and every model of M2 has its route.
C24_UpdateRewritesRoutes ==
  [][(pv_op'.op = "update" /\ "models" \in pv_op'.keys /\ pv_reply' = Ok) =>
        \A m \in Models :
           FullModel(pv_op'.name, m) \in DOMAIN model_routes'
             <=> m \in Elements(pv_op'.models)]_vars

(***************************************************************************)
(* C25.  A delete leaves no route of the provider.                         *)
(***************************************************************************)
\* C25: after a successful delete of p the route table has no route whose
\* provider is p, and p + "," + m resolves to nothing for every model m.
C25_DeleteLeavesNoRoute ==
  [][(pv_op'.op = "delete" /\ pv_reply' = Ok) =>
        /\ \A k \in DOMAIN model_routes' : model_routes'[k].provider # pv_op'.name
        /\ \A m \in Models :
              ~ResolveModelRoute(Registry(providers', model_routes'),
                                 FullModel(pv_op'.name, m)).found]_vars

C27_UnknownName ==
  [][(pv_op'.op \in {"update", "delete", "toggle"} /\ pv_op'.name \notin DOMAIN providers) =>
        /\ pv_reply' = ProviderNotFound
        /\ providers' = providers
        /\ model_routes' = model_routes]_vars

\* An update with models for a name that is not registered was answered
\* not found, another provider being registered.
C27_Witness ==
  /\ pv_op.op = "update"
  /\ "models" \in pv_op.keys
  /\ pv_op.models # <<>>
  /\ pv_reply = ProviderNotFound
  /\ pv_op.name \notin DOMAIN providers
  /\ providers # NoEntries

(***************************************************************************)
(* C28.  The API key check.                                                *)
(***************************************************************************)
\* The key a request presents: the second part of "Bearer <k>", or the
\* x-api-key header; nothing when it has neither header.
Presented(request) ==
  IF request.authorization # <<>>
  THEN IF request.authorization[1] = "Bearer" /\ Len(request.authorization) = 2
       THEN <<request.authorization[2]>> ELSE <<>>
  ELSE request.x_api_key

\* C28: with an APIKEY in the config, a request to a path other than / and
\* /health reaches the route handler only when it presents the key; it is
\* answered 401 "APIKEY is missing" when it has neither header and 401
\* "Invalid API key" when the key it presents differs.  A request to / or
\* /health is never rejected.
C28_KeyRequired ==
  st_pc = "served" =>
     IF au_request.path \in {"/", "/health"} THEN au_reply.kind = "handler"
     ELSE Truthy(file_config.APIKEY) =>
            /\ (au_request.authorization = <<>> /\ au_request.x_api_key = <<>>)
                 => au_reply = Rejected("APIKEY is missing")
            /\ (Presented(au_request) # <<>> /\ Presented(au_request) # <<file_config.APIKEY>>)
                 => au_reply = Rejected("Invalid API key")
            /\ au_reply.kind = "handler" => Presented(au_request) = <<file_config.APIKEY>>

(***************************************************************************)
(* C29.  The bind address without an API key.                              *)
(***************************************************************************)
\* C29: when the config has no APIKEY the server binds to the loopback
\* address, whatever HOST the config file or the environment holds.
C29_LoopbackWithoutKey ==
  (st_pc \in {"serving", "served"} /\ ~Truthy(file_config.APIKEY)) => bind_host = Loopback

(***************************************************************************)
(* C30.  The wildcard route.                                               *)
(***************************************************************************)
\* Does an end_point cover a path: it is a prefix of the path, a piece
\* that begins with a colon standing for any one piece.
Covers(end_point, path) ==
  /\ Len(end_point) <= Len(path)
  /\ \A k \in 1..Len(end_point) :
        end_point[k] = path[k] \/ (end_point[k] = ":modelAndAction" /\ path[k] # "/")

\* C30: a POST to a path that is no registered route is answered by the
\* pipeline of the first transformer whose end_point covers the path, so
\* that /v1beta/models/<model>:generateContent reaches the Gemini
\* transformer, and by 404 route_not_found only when no end_point does.
C30_WildcardRoute ==
  (/\ dp_pc = "served"
   /\ dp_request.method = "POST"
   /\ \A k \in 1..Len(app_routes) :
         app_routes[k].kind = "exact" => app_routes[k].path # dp_request.path)
    => LET covering == {k \in 1..Len(transformers) :
                          Covers(transformers[k].end_point, dp_request.path)}
       IN  IF covering = {} THEN dp_reply = RouteNotFound
           ELSE LET first == CHOOSE k \in covering : \A j \in covering : k <= j
                IN  dp_reply = Handled("process_transformer_request",
                                       transformers[first].name)

(***************************************************************************)
(* Claims about the stream rewriters.                                      *)
(***************************************************************************)
RECURSIVE ContentOf(_)
\* The non-empty content values of a sequence of lines, concatenated.
ContentOf(lines) ==
  IF lines = <<>> THEN ""
  ELSE (IF Head(lines).content \in {"", None} THEN "" ELSE Head(lines).content)
         \o ContentOf(Tail(lines))

\* The upstream lines as the lines they would be forwarded as.
Forwarded(lines) == [k \in DOMAIN lines |-> Forward(lines[k])]

RECURSIVE ReasoningOf(_)
\* The reasoning deltas of the upstream lines, concatenated.
ReasoningOf(lines) ==
  IF lines = <<>> THEN "" ELSE Head(lines).delta.reasoning \o ReasoningOf(Tail(lines))

\* No upstream line carries reasoning and content together.
Separate(lines) ==
  \A k \in DOMAIN lines : lines[k].delta.reasoning = "" \/ lines[k].delta.content = ""

\* The upstream lines with content that come after some reasoning.
ContentAfterReasoning(lines) ==
  {k \in DOMAIN lines : /\ lines[k].delta.content # ""
                        /\ ReasoningOf(SubSeq(lines, 1, k - 1)) # ""}

\* The lines yielded that close the thinking: those with a signature.
Closings(lines) == {i \in DOMAIN lines : lines[i].signed}

\* C31: in the deepseek and openrouter rewriters (on streams whose lines
\* carry reasoning or content, not both) at most one "thinking closed" line
\* is yielded; none is yielded before some content follows some reasoning;
\* and once content has followed reasoning there is one, it holds the
\* reasoning accumulated up to the first such line, in arrival order, and
\* the content of that line is forwarded right after it.
C31_ThinkingClosedOnce ==
  (rw.kind \in Reasoners /\ Separate(rw_fed)) =>
    LET ks == ContentAfterReasoning(rw_fed)
        cl == Closings(rw.out)
    IN  /\ Cardinality(cl) <= 1
        /\ ks = {} => cl = {}
        /\ ks # {} =>
             LET first == CHOOSE k \in ks : \A j \in ks : k <= j
             IN  \E i \in cl :
                   /\ rw.out[i].thinking = ReasoningOf(SubSeq(rw_fed, 1, first))
                   /\ i < Len(rw.out)
                   /\ rw.out[i + 1].content = rw_fed[first].delta.content

\* C39: in the deepseek and openrouter rewriters the content of the lines
\* yielded, concatenated, is the content of the upstream lines, concatenated.
C39_NoTextLost ==
  rw.kind \in Reasoners => ContentOf(rw.out) = ContentOf(Forwarded(rw_fed))

\* Line k of the upstream belongs to the ExitTool call: it names ExitTool, or
\* it is an unnamed tool-call line for the index ExitTool was named with.
BelongsToExitTool(lines, k) ==
  LET tc == lines[k].delta.tool
  IN  /\ tc # NoTool
      /\ \/ tc.name = "ExitTool"
         \/ /\ tc.name = ""
            /\ \E j \in 1..(k - 1) :
                 /\ lines[j].delta.tool.name = "ExitTool"
                 /\ lines[j].delta.tool.index = tc.index

RECURSIVE ExitToolFragments(_, _)
\* The non-empty arguments fragments of the ExitTool lines among the first
\* n upstream lines, in arrival order.
ExitToolFragments(lines, n) ==
  IF n = 0 THEN <<>>
  ELSE ExitToolFragments(lines, n - 1)
         \o (IF BelongsToExitTool(lines, n) /\ lines[n].delta.tool.arguments # ""
             THEN <<lines[n].delta.tool.arguments>> ELSE <<>>)

RECURSIVE OtherLines(_, _)
\* The first n upstream lines that are [DONE], text or lines of other tool
\* calls, as they would be forwarded.
OtherLines(lines, n) ==
  IF n = 0 THEN <<>>
  ELSE OtherLines(lines, n - 1)
         \o (IF /\ ~BelongsToExitTool(lines, n)
                /\ (lines[n].kind = "done" \/ DeltaNonEmpty(lines[n].delta))
             THEN <<Forward(lines[n])>> ELSE <<>>)

\* C33: the streaming tooluse rewriter yields one content line, holding the
\* response field, when the ExitTool fragments received so far have parsed as
\* JSON at some line, and none before; every other line it yields is a text
\* line, a line of another tool call or [DONE], unchanged and in order, and no
\* line of the ExitTool call is among them.
C33_ExitToolBuffered ==
  rw.kind = "tooluse" =>
    LET parsed == {k \in DOMAIN rw_fed :
                     /\ BelongsToExitTool(rw_fed, k)
                     /\ JsonLoadsFragments(ExitToolFragments(rw_fed, k)).ok}
        answers == {i \in DOMAIN rw.out : rw.out[i] = ContentLine("hi")}
        others == SelectSeq(rw.out, LAMBDA l : l.index # -1)
    IN  /\ Cardinality(answers) = IF parsed = {} THEN 0 ELSE 1
        /\ Len(others) + Cardinality(answers) = Len(rw.out)
        /\ others = OtherLines(rw_fed, Len(rw_fed))

(***************************************************************************)
(* Claims about the hooks on whole requests and responses.                 *)
(***************************************************************************)
\* C32: tooluse's transform_response_out on a JSON response returns a
\* response; when the first tool call is ExitTool with arguments
\* {"response": "hi"} its message has content "hi" and no tool calls, and
\* when no tool call is ExitTool its message is the upstream's.
C32_ExitToolAnswer ==
  (hk_pc = "done" /\ hk_call.hook = "tooluse.response_out") =>
    LET message == hk_call.response.json
    IN  /\ ~hk_result.raised
        /\ (/\ message.tool_calls # <<>>
            /\ message.tool_calls[1] = ToolCall(0, "ExitTool", ArgWhole))
             => hk_result.value = Message("hi", <<>>)
        /\ (\A k \in DOMAIN message.tool_calls : message.tool_calls[k].name # "ExitTool")
             => hk_result.value = message

C35_RoundTrip ==
  (hk_pc = "done" /\ hk_call.hook = "round_trip") =>
    /\ ~hk_result.raised
    /\ hk_result.value.content =
         <<[type |-> "text", text |-> hk_call.text, id |-> "", name |-> "", input |-> ""]>>
    /\ hk_result.value.stop_reason = JsonStopReasonMapping(hk_call.finish_reason)

RECURSIVE OpenBlockKind(_, _, _)
\* The type of the block of index i that is open after the first k events of
\* o: that of the last content_block_start for i, if no content_block_stop
\* for i follows it; "" when no such block is open.
OpenBlockKind(o, k, i) ==
  IF k = 0 THEN ""
  ELSE IF o[k].index = i /\ o[k].type = "content_block_start" THEN o[k].kind
  ELSE IF o[k].index = i /\ o[k].type = "content_block_stop" THEN ""
  ELSE OpenBlockKind(o, k - 1, i)

\* The type of block a delta of the given type belongs to.
BlockKindOfDelta(kind) ==
  CASE kind = "text_delta" -> "text"
    [] kind = "input_json_delta" -> "tool_use"
    [] kind \in {"thinking_delta", "signature_delta"} -> "thinking"
    [] OTHER -> "unknown"

C38_NoStaleRoute ==
  \A key \in DOMAIN model_routes :
    /\ model_routes[key].provider \in DOMAIN providers
    /\ model_routes[key].model \in Elements(providers[model_routes[key].provider].models)

(***************************************************************************)
(* C40.  The reference count covers the running sessions.                  *)
(***************************************************************************)
\* C40: after every step of the sessions, in any interleaving, the count in
\* the file is at least the number of sessions that have counted themselves
\* and whose client has not ended; and a step that terminates the gateway is
\* taken only when no such session is left.
C40_CountCoversSessions ==
  [][/\ count_file' >= Cardinality(RunningSessions')
     /\ (service_running /\ ~service_running') => RunningSessions = {}]_vars

====
